---------------------------- MODULE Spec2Model ----------------------------
(***************************************************************************)
(* A model of the memex-fs Merkle DAG repository (package dag): the object *)
(* store, the ref store, the link index, the search index, the commit log  *)
(* and the repository facade that drives them.                             *)
(*                                                                         *)
(* Strings are sequences of one-character strings, so that refFilename,    *)
(* refIDFromFilename, tokenize and sort.Strings can be computed on them.   *)
(* A file system directory is a function from file names to contents.      *)
(* Request handlers are processes; every access to a shared file or to a   *)
(* lock-protected index is one step of a handler.                          *)
(***************************************************************************)
EXTENDS Integers, Sequences, FiniteSets, TLC

\* ------------------------------------------------------------------ bounds

\* Mutations and reads begun in one behaviour of the sequential specification.
MaxOps == 3

\* Operations begun in one behaviour of the concurrent specification.
MaxConcOps == 3

\* ----------------------------------------------------------------- strings

EmptyFn == [x \in {} |-> x]

RECURSIVE Concat(_)
\* strings.Join(parts, "") of a sequence of strings.
Concat(ss) == IF ss = <<>> THEN <<>> ELSE Head(ss) \o Concat(Tail(ss))

DigitChars == <<"0", "1", "2", "3", "4", "5", "6", "7", "8", "9">>

UpperChars ==
    <<"A", "B", "C", "D", "E", "F", "G", "H", "I", "J", "K", "L", "M",
      "N", "O", "P", "Q", "R", "S", "T", "U", "V", "W", "X", "Y", "Z">>

LowerChars ==
    <<"a", "b", "c", "d", "e", "f", "g", "h", "i", "j", "k", "l", "m",
      "n", "o", "p", "q", "r", "s", "t", "u", "v", "w", "x", "y", "z">>

IndexIn(seq, c) == CHOOSE i \in 1..Len(seq) : seq[i] = c

IsIn(seq, c) == \E i \in 1..Len(seq) : seq[i] = c

\* unicode.IsDigit, unicode.IsLetter and unicode.ToLower on the ASCII range.
IsDigit(c) == IsIn(DigitChars, c)

IsLetter(c) == IsIn(UpperChars, c) \/ IsIn(LowerChars, c)

ToLower(c) == IF IsIn(UpperChars, c) THEN LowerChars[IndexIn(UpperChars, c)] ELSE c

\* The byte value of a character (the ASCII table).
Code(c) ==
    IF IsDigit(c) THEN 47 + IndexIn(DigitChars, c)
    ELSE IF IsIn(UpperChars, c) THEN 64 + IndexIn(UpperChars, c)
    ELSE IF IsIn(LowerChars, c) THEN 96 + IndexIn(LowerChars, c)
    ELSE CASE c = " " -> 32 [] c = "+" -> 43 [] c = "-" -> 45 [] c = "/" -> 47
           [] c = ":" -> 58 [] c = "=" -> 61 [] c = ">" -> 62 [] c = "[" -> 91
           [] c = "]" -> 93 [] c = "_" -> 95 [] c = "|" -> 124
           [] OTHER -> 127

RECURSIVE StrLess(_, _)
\* a < b for Go strings: bytewise lexicographic order.
StrLess(a, b) ==
    IF b = <<>> THEN FALSE
    ELSE IF a = <<>> THEN TRUE
    ELSE IF Head(a) # Head(b) THEN Code(Head(a)) < Code(Head(b))
    ELSE StrLess(Tail(a), Tail(b))

RECURSIVE SortStrings(_)
\* sort.Strings of a set of distinct strings: the ascending sequence.
SortStrings(S) ==
    IF S = {} THEN <<>>
    ELSE LET m == CHOOSE x \in S : \A y \in S \ {x} : StrLess(x, y)
         IN  <<m>> \o SortStrings(S \ {m})

RECURSIVE ReplaceColon(_)
\* strings.ReplaceAll(id, ":", "__")
ReplaceColon(s) ==
    IF s = <<>> THEN <<>>
    ELSE IF Head(s) = ":" THEN <<"_", "_">> \o ReplaceColon(Tail(s))
    ELSE <<Head(s)>> \o ReplaceColon(Tail(s))

RECURSIVE ReplaceUnderscores(_)
\* strings.ReplaceAll(name, "__", ":"): leftmost non-overlapping matches.
ReplaceUnderscores(s) ==
    IF s = <<>> THEN <<>>
    ELSE IF Len(s) >= 2 /\ s[1] = "_" /\ s[2] = "_"
         THEN <<":">> \o ReplaceUnderscores(SubSeq(s, 3, Len(s)))
    ELSE <<Head(s)>> \o ReplaceUnderscores(Tail(s))

refFilename(id) == ReplaceColon(id)

refIDFromFilename(name) == ReplaceUnderscores(name)

\* ------------------------------------------------------------ input domains

ID_N == <<"n", "1">>
ID_C == <<"t", ":", "x">>
ID_U == <<"t", "_", "_", "x">>

\* The IDs the handlers are called with: a plain one, a colon-shaped one, and
\* one holding the on-disk sentinel of the colon.
IDs == {ID_N, ID_C, ID_U}

T_NOTE == <<"N", "o", "t", "e">>
T_TASK == <<"T", "a", "s", "k">>
T_SOURCE == <<"S", "o", "u", "r", "c", "e">>

C_NIL == <<>>
C_HI == <<"h", "i">>
C_YO == <<"y", "o">>

V_ONE == <<"v", "1">>
V_TWO == <<"v", "2">>

\* A metadata value is a JSON value: [str |-> s], [num |-> n] or Null.
Null == [null |-> TRUE]

M_NIL == EmptyFn
M_K1 == [k1 |-> [str |-> V_ONE]]

\* (type, content, meta) of the CreateNode calls.
CreateArgs ==
    { [typ |-> T_NOTE, content |-> C_HI, meta |-> M_K1],
      [typ |-> T_TASK, content |-> C_NIL, meta |-> M_NIL] }

\* The metadata patches of the UpdateNode calls: one removes a key and adds
\* another, one overwrites.
Patches ==
    { [k1 |-> Null, k2 |-> [str |-> V_TWO]],
      [k1 |-> [str |-> V_TWO]] }

UpdateContents == {C_YO}

IngestContents == {C_HI}

F_TEXT == <<"t", "e", "x", "t">>

L_REFS == <<"r", "e", "f", "s">>

LinkArgs ==
    { [source |-> ID_N, target |-> ID_C, type |-> L_REFS],
      [source |-> ID_C, target |-> ID_N, type |-> L_REFS] }

\* hex.EncodeToString(sha256.Sum256(content)), cut to its first two digits:
\* an injective map on the contents in use.
HexSha256(c) ==
    CASE c = C_NIL -> <<"e", "3">>
      [] c = C_HI -> <<"8", "f">>
      [] c = C_YO -> <<"e", "9">>

IngestID(c) == <<"s", "h", "a", "2", "5", "6", ":">> \o HexSha256(c)

AUTHOR == "did:key:zLocal"


\* ------------------------------------------------- canonical JSON and CIDs

\* time.Time.MarshalJSON: the RFC 3339 text of an instant.
TimeJSON(t) == [rfc3339 |-> t]

\* time.Time.UnmarshalJSON
TimeParse(j) == j.rfc3339

\* encoding/json writes a []byte as a base64 string and reads it back.
Base64(bytes) == [b64 |-> bytes]

Base64Decode(j) == j.b64

\* A field carrying `omitempty`: present only when its value is not the zero value.
OmitEmpty(present, key, value) == IF present THEN key :> value ELSE EmptyFn

\* gocid.Undef
Undef == [version |-> 0, codec |-> "undef", digest |-> [sha256 |-> [json |-> EmptyFn]]]

\* The empty string where a textual CID is expected.
EmptyText == [mb |-> "", cid |-> Undef]

\* NodeEnvelope: the in-memory envelope (a nil slice or map is the empty one).
NodeEnvelope(id, typ, content, meta, created, modified, prev, deleted) ==
    [v |-> 1, id |-> id, type |-> typ, content |-> content, meta |-> meta,
     created |-> created, modified |-> modified, prev |-> prev, deleted |-> deleted]

\* The zero NodeEnvelope that json.Unmarshal fills in.
ZeroEnvelope == NodeEnvelope(<<>>, <<>>, <<>>, EmptyFn, 0, 0, EmptyText, FALSE)

\* CanonicalJSON of a NodeEnvelope: json.Marshal under the struct tags (content,
\* meta, prev and deleted are omitted when empty), re-decoded and re-encoded
\* with sorted keys. An object is a function of its keys, which has no key order.
CanonicalJSON(n) ==
    [json |->
        [v |-> n.v, id |-> n.id, type |-> n.type,
         created |-> TimeJSON(n.created), modified |-> TimeJSON(n.modified)]
        @@ OmitEmpty(n.content # <<>>, "content", Base64(n.content))
        @@ OmitEmpty(n.meta # EmptyFn, "meta", n.meta)
        @@ OmitEmpty(n.prev # EmptyText, "prev", n.prev)
        @@ OmitEmpty(n.deleted, "deleted", TRUE)]

\* json.Unmarshal(data, &node): absent keys keep the zero value.
UnmarshalNode(data) ==
    LET j == data.json
        has(k) == k \in DOMAIN j
    IN  [v |-> IF has("v") THEN j.v ELSE 0,
         id |-> IF has("id") THEN j.id ELSE <<>>,
         type |-> IF has("type") THEN j.type ELSE <<>>,
         content |-> IF has("content") THEN Base64Decode(j.content) ELSE <<>>,
         meta |-> IF has("meta") THEN j.meta ELSE EmptyFn,
         created |-> IF has("created") THEN TimeParse(j.created) ELSE 0,
         modified |-> IF has("modified") THEN TimeParse(j.modified) ELSE 0,
         prev |-> IF has("prev") THEN j.prev ELSE EmptyText,
         deleted |-> IF has("deleted") THEN j.deleted ELSE FALSE]

\* CanonicalJSON of a CommitObject (parent and message are omitted when empty).
CanonicalCommit(c) ==
    [json |->
        [v |-> c.v, author |-> c.author, timestamp |-> TimeJSON(c.timestamp),
         refs |-> c.refs, links |-> c.links]
        @@ OmitEmpty(c.parent # EmptyText, "parent", c.parent)
        @@ OmitEmpty(c.message # <<>>, "message", c.message)]

\* json.Unmarshal(data, &commit)
UnmarshalCommit(data) ==
    LET j == data.json
        has(k) == k \in DOMAIN j
    IN  [v |-> IF has("v") THEN j.v ELSE 0,
         author |-> IF has("author") THEN j.author ELSE "",
         timestamp |-> IF has("timestamp") THEN TimeParse(j.timestamp) ELSE 0,
         refs |-> IF has("refs") THEN j.refs ELSE EmptyFn,
         links |-> IF has("links") THEN j.links ELSE <<>>,
         parent |-> IF has("parent") THEN j.parent ELSE EmptyText,
         message |-> IF has("message") THEN j.message ELSE <<>>]

\* multihash.Sum(data, SHA2_256): SHA-256 as an injective function of the bytes.
Sha256(data) == [sha256 |-> data]

\* ComputeCID: CIDv1, raw codec, SHA2-256 multihash of the data.
ComputeCID(data) == [version |-> 1, codec |-> "raw", digest |-> Sha256(data)]

\* CIDToFilename: multibase base32 ("b" and the CID's bytes; Undef has none).
CIDToFilename(c) == [mb |-> "b", cid |-> c]

\* multibase.Decode followed by gocid.Cast: the CID of a text, or an error for
\* the empty string and for a text holding no CID bytes.
DecodeCID(text) ==
    IF text.mb = "b" /\ text.cid # Undef
    THEN [ok |-> TRUE, cid |-> text.cid]
    ELSE [ok |-> FALSE, cid |-> Undef]

\* ------------------------------------------------------------ object store

\* A write that replaces the directory instead of the one file.
WriteReplacingDirectory(dir, path, data) == (path :> data)

\* SafeWrite(path, data): the temporary file is renamed over the target, so
\* the directory entry goes from its old content to the whole new content.
SafeWrite(dir, path, data) == (path :> data) @@ dir

\* ObjectStore.Put on the objects directory: the directory afterwards.
ObjectStorePut(objs, data) ==
    LET path == CIDToFilename(ComputeCID(data))
    IN  IF path \in DOMAIN objs THEN objs ELSE SafeWrite(objs, path, data)

\* ObjectStore.Has
ObjectStoreHas(objs, c) == CIDToFilename(c) \in DOMAIN objs

\* ObjectStore.Get: the bytes, or an error when the file is missing.
ObjectStoreGet(objs, c) ==
    IF CIDToFilename(c) \in DOMAIN objs
    THEN [ok |-> TRUE, data |-> objs[CIDToFilename(c)]]
    ELSE [ok |-> FALSE, data |-> [json |-> EmptyFn]]

\* --------------------------------------------------------------- ref store

\* RefStore.Set is os.WriteFile: the file is opened with O_CREATE|O_TRUNC,
\* which leaves it empty, and then the text is written.
RefSetTruncate(dir, id) == (refFilename(id) :> EmptyText) @@ dir

RefSetWrite(dir, id, c) == (refFilename(id) :> CIDToFilename(c)) @@ dir

\* RefStore.Get: "not_found" when the file cannot be read, "decode" when its
\* content is no CID, else the CID.
RefGet(dir, id) ==
    IF refFilename(id) \notin DOMAIN dir
    THEN [err |-> "not_found", cid |-> Undef]
    ELSE LET d == DecodeCID(dir[refFilename(id)])
         IN  IF d.ok THEN [err |-> "", cid |-> d.cid]
             ELSE [err |-> "decode", cid |-> Undef]

\* RefStore.Has: os.Stat succeeds.
RefHas(dir, id) == refFilename(id) \in DOMAIN dir

\* RefStore.Delete: os.Remove.
RefDelete(dir, id) == [f \in DOMAIN dir \ {refFilename(id)} |-> dir[f]]

\* RefStore.List: the IDs of the directory's files.
RefList(dir) == {refIDFromFilename(f) : f \in DOMAIN dir}


\* -------------------------------------------------------------- link index

\* LinkEntry
LinkEntry(source, target, type) == [source |-> source, target |-> target, type |-> type]

\* NewLinkIndex on a missing journal: no entry.
EmptyLinks == [forward |-> EmptyFn, reverse |-> EmptyFn, journal |-> <<>>]

\* idx.forward[k], idx.reverse[k]: the bucket of a key, empty when absent.
Bucket(m, k) == IF k \in DOMAIN m THEN m[k] ELSE <<>>

\* An Add without the duplicate check.
LinkAddWithoutCheck(idx, entry) ==
    [forward |-> (entry.source :> Append(Bucket(idx.forward, entry.source), entry))
                     @@ idx.forward,
     reverse |-> (entry.target :> Append(Bucket(idx.reverse, entry.target), entry))
                     @@ idx.reverse,
     journal |-> Append(idx.journal, entry)]

\* LinkIndex.Add under the writer lock: a triple already in the forward bucket of
\* its source changes nothing; otherwise one line is appended to the journal
\* (SafeAppend) and the entry to both buckets.
LinkAdd(idx, entry) ==
    IF \E i \in 1..Len(Bucket(idx.forward, entry.source)) :
          /\ idx.forward[entry.source][i].target = entry.target
          /\ idx.forward[entry.source][i].type = entry.type
    THEN idx
    ELSE [forward |-> (entry.source :> Append(Bucket(idx.forward, entry.source), entry))
                         @@ idx.forward,
          reverse |-> (entry.target :> Append(Bucket(idx.reverse, entry.target), entry))
                         @@ idx.reverse,
          journal |-> Append(idx.journal, entry)]

\* LinkIndex.LinksFrom, LinksTo
LinksFrom(idx, id) == Bucket(idx.forward, id)

LinksTo(idx, id) == Bucket(idx.reverse, id)

\* LinkIndex.AllEntries under the reader lock: every entry of every forward
\* bucket (in the iteration order of a Go map, which the caller sorts away).
AllEntries(idx) ==
    UNION {{idx.forward[k][i] : i \in 1..Len(idx.forward[k])} : k \in DOMAIN idx.forward}

\* The order of the links of a commit: by source, then target, then type.
LinkLess(a, b) ==
    IF a.source # b.source THEN StrLess(a.source, b.source)
    ELSE IF a.target # b.target THEN StrLess(a.target, b.target)
    ELSE StrLess(a.type, b.type)

RECURSIVE SortLinks(_)
\* sort.Slice(allLinks, ...) of distinct entries.
SortLinks(S) ==
    IF S = {} THEN <<>>
    ELSE LET m == CHOOSE x \in S : \A y \in S \ {x} : LinkLess(x, y)
         IN  <<m>> \o SortLinks(S \ {m})

\* ------------------------------------------------------------ search index

RECURSIVE Fields(_, _)
\* strings.FieldsFunc(text, not letter and not digit), with the field being
\* read in `word`.
Fields(text, word) ==
    IF text = <<>> THEN (IF word = <<>> THEN <<>> ELSE <<word>>)
    ELSE IF IsLetter(Head(text)) \/ IsDigit(Head(text))
         THEN Fields(Tail(text), Append(word, Head(text)))
    ELSE (IF word = <<>> THEN <<>> ELSE <<word>>) \o Fields(Tail(text), <<>>)

\* tokenize: the lowercased fields of at least two bytes, without repeats.
tokenize(text) ==
    LET lower == [i \in 1..Len(text) |-> ToLower(text[i])]
        words == Fields(lower, <<>>)
    IN  {words[i] : i \in {j \in 1..Len(words) : Len(words[j]) >= 2}}

\* base64.StdEncoding.DecodeString succeeds: whole groups of four characters of
\* the alphabet (a padded last group is not among the contents in use).
IsStdBase64(text) ==
    /\ Len(text) % 4 = 0
    /\ \A i \in 1..Len(text) :
          IsLetter(text[i]) \/ IsDigit(text[i]) \/ text[i] \in {"+", "/"}

\* The value of a character of the base64 alphabet.
B64Value(c) ==
    IF IsIn(UpperChars, c) THEN IndexIn(UpperChars, c) - 1
    ELSE IF IsIn(LowerChars, c) THEN 25 + IndexIn(LowerChars, c)
    ELSE IF IsDigit(c) THEN 51 + IndexIn(DigitChars, c)
    ELSE IF c = "+" THEN 62 ELSE 63

\* string(byte): the ASCII letter or digit of a byte, and a character that is
\* neither for every other byte.
CharOfByte(b) ==
    IF b >= 48 /\ b <= 57 THEN DigitChars[b - 47]
    ELSE IF b >= 65 /\ b <= 90 THEN UpperChars[b - 64]
    ELSE IF b >= 97 /\ b <= 122 THEN LowerChars[b - 96]
    ELSE "?"

RECURSIVE StdBase64Decode(_)
\* The decoded bytes of a text that IsStdBase64, as a string.
StdBase64Decode(text) ==
    IF Len(text) < 4 THEN <<>>
    ELSE LET n == B64Value(text[1]) * 262144 + B64Value(text[2]) * 4096
                  + B64Value(text[3]) * 64 + B64Value(text[4])
         IN  <<CharOfByte(n \div 65536), CharOfByte((n \div 256) % 256),
               CharOfByte(n % 256)>> \o StdBase64Decode(SubSeq(text, 5, Len(text)))

\* fmt.Sprintf("%v", v) of a metadata value.
Sprint(v) ==
    IF "str" \in DOMAIN v THEN v.str
    ELSE IF "num" \in DOMAIN v THEN <<DigitChars[v.num + 1]>>
    ELSE IF "bool" \in DOMAIN v
         THEN (IF v.bool THEN <<"t", "r", "u", "e">> ELSE <<"f", "a", "l", "s", "e">>)
    ELSE IF "list" \in DOMAIN v
         THEN <<"[">> \o Concat([i \in 1..Len(v.list) |->
                        (IF i > 1 THEN <<" ">> ELSE <<>>) \o v.list[i]]) \o <<"]">>
    ELSE <<"<", "n", "i", "l", ">">>

\* NewSearchIndex
EmptySearch == [index |-> EmptyFn, types |-> EmptyFn]

\* The terms IndexNode files a node under: the tokens of its ID, type, content
\* (base64-decoded when it decodes) and metadata values, joined by spaces.
NodeTerms(id, node) ==
    LET text == IF IsStdBase64(node.content) THEN StdBase64Decode(node.content)
                ELSE node.content
        metas == UNION {tokenize(Sprint(node.meta[k])) : k \in DOMAIN node.meta}
    IN  tokenize(id \o <<" ">> \o node.type \o <<" ">> \o text) \cup metas

\* The map m with id added to the set under every key of ks.
AddToSets(m, ks, id) ==
    [k \in DOMAIN m \cup ks |->
        IF k \in ks THEN (IF k \in DOMAIN m THEN m[k] ELSE {}) \cup {id} ELSE m[k]]

\* The map m with id removed from every set, and the emptied keys deleted.
RemoveFromSets(m, id) ==
    [k \in {k2 \in DOMAIN m : m[k2] \ {id} # {}} |-> m[k] \ {id}]

\* SearchIndex.IndexNode under the writer lock.
IndexNode(s, id, node) ==
    [index |-> AddToSets(s.index, NodeTerms(id, node), id),
     types |-> IF node.type # <<>> THEN AddToSets(s.types, {node.type}, id)
               ELSE s.types]

\* SearchIndex.RemoveNode under the writer lock.
RemoveNode(s, id) ==
    [index |-> RemoveFromSets(s.index, id), types |-> RemoveFromSets(s.types, id)]

\* SearchIndex.FilterByType: the IDs under a type, sorted, cut to limit when
\* limit > 0.
FilterByType(s, typ, limit) ==
    LET ids == SortStrings(IF typ \in DOMAIN s.types THEN s.types[typ] ELSE {})
    IN  IF limit > 0 /\ Len(ids) > limit THEN SubSeq(ids, 1, limit) ELSE ids

\* The number of the query's terms each ID is filed under: Search's scores map,
\* whose keys are the IDs filed under at least one.
SearchScores(s, terms) ==
    LET hits(id) == {t \in terms \cap DOMAIN s.index : id \in s.index[t]}
        ids == UNION {s.index[t] : t \in terms \cap DOMAIN s.index}
    IN  [id \in ids |-> Cardinality(hits(id))]

\* The orders in which ranging over a Go map can give the keys S: all of them.
MapOrders(S) ==
    {o \in [1..Cardinality(S) -> S] : \A i, j \in 1..Cardinality(S) : o[i] = o[j] => i = j}

\* What sort.Slice with the less function "score greater" can make of the
\* map's keys: the sort is not stable and the keys come in any order, so any
\* order whose scores do not rise.
SortedByScoreOnly(scores) ==
    {o \in MapOrders(DOMAIN scores) :
        \A i \in 1..(Len(o) - 1) : scores[o[i]] >= scores[o[i + 1]]}

\* SearchIndex.Search(query, limit) under the reader lock: the lists a call
\* can return. nil and the empty list are both <<>>.
Search(s, query, limit) ==
    LET terms == tokenize(query)
        scores == SearchScores(s, terms)
    IN  IF terms = {} THEN {<<>>}
        ELSE {IF limit > 0 /\ Len(o) > limit THEN SubSeq(o, 1, limit) ELSE o :
                o \in SortedByScoreOnly(scores)}


\* -------------------------------------------------------------- commit log

\* The HEAD file: absent, or one line holding a textual CID.
NoHead == [exists |-> FALSE, line |-> EmptyText]

\* CommitLog.Head: Undef when the file is missing or blank, else the CID of
\* its trimmed line.
HeadOf(hf) ==
    IF ~hf.exists \/ hf.line = EmptyText THEN Undef
    ELSE LET d == DecodeCID(hf.line) IN IF d.ok THEN d.cid ELSE Undef

\* CommitObject as Commit builds it.
CommitObject(parent, timestamp, refsMap, allLinks, message) ==
    [v |-> 1, parent |-> parent, author |-> AUTHOR, timestamp |-> timestamp,
     refs |-> refsMap, links |-> allLinks, message |-> message]

\* CommitLog.GetCommit
GetCommit(objs, c) ==
    LET g == ObjectStoreGet(objs, c)
    IN  IF g.ok THEN [ok |-> TRUE, commit |-> UnmarshalCommit(g.data)]
        ELSE [ok |-> FALSE, commit |-> UnmarshalCommit([json |-> EmptyFn])]

RECURSIVE LogFrom(_, _, _)
\* The loop of CommitLog.Log: up to n commits from `current`, following parent
\* and stopping at an unreadable commit, an empty parent or a parent that
\* does not decode.
LogFrom(objs, current, n) ==
    IF n <= 0 \/ current = Undef THEN <<>>
    ELSE LET g == GetCommit(objs, current)
         IN  IF ~g.ok THEN <<>>
             ELSE IF g.commit.parent = EmptyText \/ ~DecodeCID(g.commit.parent).ok
                  THEN <<g.commit>>
             ELSE <<g.commit>> \o LogFrom(objs, DecodeCID(g.commit.parent).cid, n - 1)

\* CommitLog.Log(n): newest first.
Log(objs, hf, n) == LogFrom(objs, HeadOf(hf), n)

\* ------------------------------------------------------------- co-access

\* The session gap threshold the index is built with, in clock units.
coAccessWindow == 2

\* The zero time.Time.
ZeroTime == 0

\* time.Time.IsZero
IsZero(t) == t = ZeroTime

\* NewCoAccessIndex with no access log on disk. The map of maps pairs is a
\* function of the (a, b) that are keys of it.
EmptyCoAccess ==
    [pairs |-> EmptyFn, currentWindow |-> {},
     windowStart |-> ZeroTime, lastAccess |-> ZeroTime]

\* pairs[a][b] of a Go map of maps: 0 for a key that is not there.
PairCount(pairs, a, b) == IF <<a, b>> \in DOMAIN pairs THEN pairs[a, b] ELSE 0

\* The (i, j) of flushSession's two loops at which it increments pairs[a][b].
FlushHits(session, a, b) ==
    {ij \in (1..Len(session)) \X (1..Len(session)) :
        /\ ij[1] < ij[2]
        /\ \/ session[ij[1]] = a /\ session[ij[2]] = b
           \/ session[ij[1]] = b /\ session[ij[2]] = a}

\* flushSession that increments pairs[a][b] alone.
flushSessionOneWay(pairs, session) ==
    IF Len(session) < 2 THEN pairs
    ELSE LET hit == {k \in (1..Len(session)) \X (1..Len(session)) : k[1] < k[2]}
             key(k) == <<session[k[1]], session[k[2]]>>
         IN  [x \in DOMAIN pairs \cup {key(k) : k \in hit} |->
                PairCount(pairs, x[1], x[2]) + Cardinality({k \in hit : key(k) = x})]

\* flushSession: pairs[a][b]++ and pairs[b][a]++ for all i < j. A hit with
\* a = b is incremented by both statements.
flushSession(pairs, session) ==
    IF Len(session) < 2 THEN pairs
    ELSE LET ids == {session[i] : i \in 1..Len(session)}
             hit == {k \in ids \X ids : FlushHits(session, k[1], k[2]) # {}}
         IN  [k \in DOMAIN pairs \cup hit |->
                PairCount(pairs, k[1], k[2])
                    + (IF k[1] = k[2] THEN 2 ELSE 1)
                        * Cardinality(FlushHits(session, k[1], k[2]))]

\* Record that keeps the IDs of the closed session in the new one.
RecordKeepingWindow(idx, nodeID, ts) ==
    LET gap == ~IsZero(idx.lastAccess) /\ ts - idx.lastAccess > coAccessWindow
        flushed == IF gap THEN flushSession(idx.pairs, SortStrings(idx.currentWindow))
                   ELSE idx.pairs
        start == IF gap THEN ts ELSE idx.windowStart
    IN  [pairs |-> flushed,
         currentWindow |-> idx.currentWindow \cup {nodeID},
         windowStart |-> IF IsZero(start) THEN ts ELSE start,
         lastAccess |-> ts]

\* CoAccessIndex.Record(nodeID, ts). The keys of currentWindow are flushed in
\* one order; flushSession counts the same for every order.
Record(idx, nodeID, ts) ==
    LET gap == ~IsZero(idx.lastAccess) /\ ts - idx.lastAccess > coAccessWindow
        flushed == IF gap THEN flushSession(idx.pairs, SortStrings(idx.currentWindow))
                   ELSE idx.pairs
        window == IF gap THEN {} ELSE idx.currentWindow
        start == IF gap THEN ts ELSE idx.windowStart
    IN  [pairs |-> flushed,
         currentWindow |-> window \cup {nodeID},
         windowStart |-> IF IsZero(start) THEN ts ELSE start,
         lastAccess |-> ts]

\* A line of access.jsonl as AccessLog.Log writes it: the time in
\* RFC3339Nano, the node and the field; and a line that is no JSON of it.
LogLine(nodeID, ts) == [malformed |-> FALSE, ts |-> [rfc3339 |-> ts], node |-> nodeID]
MalformedLine == [malformed |-> TRUE, ts |-> [rfc3339 |-> ZeroTime], node |-> <<>>]

\* One turn of the scanner loop of load on a line: the session, its start,
\* the last time and the pairs after it.
loadLine(st, line) ==
    IF line.malformed THEN st
    ELSE LET ts == line.ts.rfc3339
             gap == ~IsZero(st.lastTS) /\ ts - st.lastTS > coAccessWindow
             session == IF gap THEN <<>> ELSE st.session
             start == IF gap THEN ts ELSE st.sessionStart
         IN  [pairs |-> IF gap THEN flushSession(st.pairs, st.session) ELSE st.pairs,
              session |-> IF \E i \in 1..Len(session) : session[i] = line.node
                          THEN session ELSE Append(session, line.node),
              sessionStart |-> IF IsZero(start) THEN ts ELSE start,
              lastTS |-> ts]

RECURSIVE loadLines(_, _)
\* The scanner loop of load over the first n lines.
loadLines(lines, n) ==
    IF n = 0
    THEN [pairs |-> EmptyFn, session |-> <<>>, sessionStart |-> ZeroTime, lastTS |-> ZeroTime]
    ELSE loadLine(loadLines(lines, n - 1), lines[n])

\* load that leaves the final session where it is.
loadWithoutFinalFlush(lines) == loadLines(lines, Len(lines)).pairs

\* CoAccessIndex.load: the pairs after the loop and the flush of the final
\* session.
load(lines) ==
    LET st == loadLines(lines, Len(lines))
    IN  flushSession(st.pairs, st.session)

\* NewCoAccessIndex(logPath, window) with these lines in the log.
NewCoAccessIndex(lines) == [EmptyCoAccess EXCEPT !.pairs = load(lines)]

\* ----------------------------------------------------------- relatedness

\* NewCoChangeIndex before Build.
EmptyCoChange == [pairs |-> EmptyFn]

\* The temporal grouping window the index is built with, in clock units.
coChangeWindow == 2

\* diffRefs(parent, child): the IDs of a different CID, added, or removed.
diffRefs(parent, child) ==
    {id \in DOMAIN child : id \notin DOMAIN parent \/ parent[id] # child[id]}
    \cup (DOMAIN parent \ DOMAIN child)

\* The change events Build collects from the commits, newest first: one for
\* each commit whose refs differ from its parent's, and last one for the
\* first commit if it has refs.
ChangeEvents(commits) ==
    LET n == Len(commits)
        diffs == [i \in 1..(n - 1) |->
                     [ts |-> commits[i].timestamp,
                      changed |-> diffRefs(commits[i + 1].refs, commits[i].refs)]]
        first == [ts |-> commits[n].timestamp, changed |-> DOMAIN commits[n].refs]
    IN  SelectSeq(diffs, LAMBDA e : e.changed # {})
        \o (IF first.changed # {} THEN <<first>> ELSE <<>>)

\* sort.Slice(events, ts before): what it can make of the events, any order
\* in which no time is before an earlier one's.
SortedByTime(events) ==
    {[i \in 1..Len(events) |-> events[o[i]]] :
        o \in {x \in MapOrders(1..Len(events)) :
                  \A i \in 1..(Len(events) - 1) : events[x[i]].ts <= events[x[i + 1]].ts}}

\* flushWindow that counts a window's pairs twice.
flushWindowTwice(pairs, events) ==
    LET unique == UNION {events[i].changed : i \in 1..Len(events)}
        hit == {k \in unique \X unique : k[1] # k[2]}
    IN  IF Cardinality(unique) < 2 THEN pairs
        ELSE [k \in DOMAIN pairs \cup hit |->
                 PairCount(pairs, k[1], k[2]) + (IF k \in hit THEN 2 ELSE 0)]

\* flushWindow: the unique changed IDs of the window's events, and for them
\* in the order the range over the map gave them (nodes), pairs[a][b]++ and
\* pairs[b][a]++ for all i < j. Every order counts the same, so one is taken.
flushWindow(pairs, events) ==
    LET unique == UNION {events[i].changed : i \in 1..Len(events)}
        nodes == SortStrings(unique)
        hit == {k \in unique \X unique : FlushHits(nodes, k[1], k[2]) # {}}
    IN  IF Len(nodes) < 2 THEN pairs
        ELSE [k \in DOMAIN pairs \cup hit |->
                 PairCount(pairs, k[1], k[2])
                     + (IF k[1] = k[2] THEN 2 ELSE 1)
                         * Cardinality(FlushHits(nodes, k[1], k[2]))]

RECURSIVE GroupWindows(_, _)
\* The loop of Build over the first n sorted events: the windows it has
\* flushed, the events of the open window and its start.
GroupWindows(events, n) ==
    IF n = 0 THEN [flushed |-> <<>>, windowEvents |-> <<>>, windowStart |-> ZeroTime]
    ELSE LET st == GroupWindows(events, n - 1)
             evt == events[n]
             gap == ~IsZero(st.windowStart) /\ evt.ts - st.windowStart > coChangeWindow
             start == IF gap THEN evt.ts ELSE st.windowStart
         IN  [flushed |-> IF gap THEN Append(st.flushed, st.windowEvents) ELSE st.flushed,
              windowEvents |-> Append(IF gap THEN <<>> ELSE st.windowEvents, evt),
              windowStart |-> IF IsZero(start) THEN evt.ts ELSE start]

RECURSIVE FlushAll(_, _, _)
\* flushWindow for the first n of the windows, in order.
FlushAll(pairs, windows, n) ==
    IF n = 0 THEN pairs ELSE flushWindow(FlushAll(pairs, windows, n - 1), windows[n])

\* The windows Build flushes for sorted events: those closed in the loop and
\* the one open at its end.
BuildWindows(sorted) ==
    LET st == GroupWindows(sorted, Len(sorted))
    IN  Append(st.flushed, st.windowEvents)

\* Build that begins with empty pairs.
BuildAfresh(pairs, commits) ==
    IF Len(commits) < 2 THEN {pairs}
    ELSE {FlushAll(EmptyFn, BuildWindows(sorted), Len(BuildWindows(sorted))) :
             sorted \in SortedByTime(ChangeEvents(commits))}

\* CoChangeIndex.Build on an index of these pairs, with commits what
\* Log(1000) returned without error: the pairs it can leave.
Build(pairs, commits) ==
    IF Len(commits) < 2 THEN {pairs}
    ELSE {FlushAll(pairs, BuildWindows(sorted), Len(BuildWindows(sorted))) :
             sorted \in SortedByTime(ChangeEvents(commits))}

\* The keys of pairs[a].
PeerKeys(pairs, a) == {k[2] : k \in {x \in DOMAIN pairs : x[1] = a}}

\* The less function Related sorts with: higher score first, then lower ID.
RankedBefore(scores, a, b) ==
    IF scores[a] # scores[b] THEN scores[a] > scores[b] ELSE StrLess(a, b)

RECURSIVE SortByScore(_, _)
\* sort.Slice of the scored IDs by RankedBefore.
SortByScore(S, scores) ==
    IF S = {} THEN <<>>
    ELSE LET m == CHOOSE x \in S : \A y \in S \ {x} : RankedBefore(scores, x, y)
         IN  <<m>> \o SortByScore(S \ {m}, scores)

\* results[:limit] when limit > 0 and there are more than limit results.
Truncate(results, limit) ==
    IF limit > 0 /\ Len(results) > limit THEN SubSeq(results, 1, limit) ELSE results

\* The scores Related sums with the given weights.
Scores(access, change, nodeID, wAccess, wChange) ==
    [id \in PeerKeys(access.pairs, nodeID) \cup PeerKeys(change.pairs, nodeID) |->
        wAccess * PairCount(access.pairs, nodeID, id)
            + wChange * PairCount(change.pairs, nodeID, id)]

\* Related that weighs a co-change as it weighs a co-access.
RelatedUnweighted(access, change, nodeID, limit) ==
    LET scores == Scores(access, change, nodeID, 1, 1)
    IN  Truncate(SortByScore(DOMAIN scores, scores), limit)

\* RelatednessIndex.Related(nodeID, limit): nil and the empty list are both <<>>.
Related(access, change, nodeID, limit) ==
    LET scores == Scores(access, change, nodeID, 1, 2)
    IN  Truncate(SortByScore(DOMAIN scores, scores), limit)

\* ------------------------------------------------------------------ feeds

\* strings.HasPrefix
HasPrefix(str, prefix) ==
    Len(str) >= Len(prefix) /\ SubSeq(str, 1, Len(prefix)) = prefix

\* "did:key:z"
DidKeyPrefix == <<"d", "i", "d", ":", "k", "e", "y", ":", "z">>

\* Two DIDs, and a name that is no DID.
DID_A == DidKeyPrefix \o <<"A">>
DID_B == DidKeyPrefix \o <<"B">>
NOT_A_DID == <<"b", "o", "b">>

adjectives ==
    << <<"a", "m", "b", "e", "r">>, <<"a", "z", "u", "r", "e">>, <<"b", "o", "l", "d">>, <<"b", "r", "i", "g", "h", "t">>,
       <<"c", "a", "l", "m">>, <<"c", "l", "e", "a", "r">>, <<"c", "o", "o", "l">>, <<"c", "o", "r", "a", "l">>,
       <<"c", "r", "i", "m", "s", "o", "n">>, <<"d", "a", "r", "k">>, <<"d", "e", "e", "p">>, <<"d", "r", "y">>,
       <<"d", "u", "s", "k">>, <<"f", "a", "i", "n", "t">>, <<"f", "a", "s", "t">>, <<"f", "i", "r", "m">>,
       <<"g", "o", "l", "d">>, <<"g", "r", "e", "e", "n">>, <<"g", "r", "e", "y">>, <<"h", "a", "z", "e">>,
       <<"i", "r", "o", "n">>, <<"k", "e", "e", "n">>, <<"k", "i", "n", "d">>, <<"l", "a", "t", "e">>,
       <<"l", "i", "g", "h", "t">>, <<"l", "i", "v", "e">>, <<"l", "o", "n", "g">>, <<"l", "o", "u", "d">>,
       <<"l", "o", "w">>, <<"m", "i", "l", "d">>, <<"m", "i", "n", "t">>, <<"m", "i", "s", "t">>,
       <<"m", "o", "s", "s">>, <<"n", "e", "a", "r">>, <<"n", "e", "w">>, <<"n", "e", "x", "t">>,
       <<"n", "o", "r", "t", "h">>, <<"o", "d", "d">>, <<"o", "l", "d">>, <<"o", "p", "e", "n">>,
       <<"p", "a", "l", "e">>, <<"p", "i", "n", "e">>, <<"p", "l", "a", "i", "n">>, <<"p", "r", "o", "u", "d">>,
       <<"p", "u", "r", "e">>, <<"q", "u", "i", "c", "k">>, <<"q", "u", "i", "e", "t">>, <<"r", "a", "r", "e">>,
       <<"r", "a", "w">>, <<"r", "e", "d">>, <<"r", "i", "c", "h">>, <<"s", "a", "g", "e">>,
       <<"s", "a", "l", "t">>, <<"s", "a", "n", "d">>, <<"s", "h", "a", "r", "p">>, <<"s", "h", "y">>,
       <<"s", "i", "l", "k">>, <<"s", "l", "i", "m">>, <<"s", "l", "o", "w">>, <<"s", "o", "f", "t">>,
       <<"s", "o", "u", "t", "h">>, <<"s", "t", "e", "e", "l">>, <<"s", "t", "i", "l", "l">>, <<"s", "t", "o", "n", "e">> >>

nouns ==
    << <<"a", "s", "h">>, <<"b", "a", "y">>, <<"b", "i", "r", "c", "h">>, <<"b", "l", "o", "o", "m">>,
       <<"b", "r", "o", "o", "k">>, <<"c", "a", "v", "e">>, <<"c", "e", "d", "a", "r">>, <<"c", "l", "i", "f", "f">>,
       <<"c", "l", "o", "u", "d">>, <<"c", "o", "a", "l">>, <<"c", "o", "v", "e">>, <<"c", "r", "a", "n", "e">>,
       <<"c", "r", "e", "e", "k">>, <<"c", "r", "o", "w">>, <<"d", "a", "w", "n">>, <<"d", "e", "e", "r">>,
       <<"d", "o", "v", "e">>, <<"d", "u", "n", "e">>, <<"d", "u", "s", "k">>, <<"e", "a", "g", "l", "e">>,
       <<"e", "l", "m">>, <<"e", "m", "b", "e", "r">>, <<"f", "e", "r", "n">>, <<"f", "i", "n", "c", "h">>,
       <<"f", "i", "r", "e">>, <<"f", "l", "i", "n", "t">>, <<"f", "o", "x">>, <<"f", "r", "o", "s", "t">>,
       <<"g", "a", "l", "e">>, <<"g", "l", "e", "n">>, <<"g", "r", "o", "v", "e">>, <<"h", "a", "w", "k">>,
       <<"h", "a", "z", "e">>, <<"h", "e", "a", "t", "h">>, <<"h", "e", "r", "o", "n">>, <<"h", "i", "l", "l">>,
       <<"i", "v", "y">>, <<"j", "a", "d", "e">>, <<"j", "a", "y">>, <<"l", "a", "k", "e">>,
       <<"l", "a", "r", "k">>, <<"l", "e", "a", "f">>, <<"m", "a", "r", "s", "h">>, <<"m", "e", "s", "a">>,
       <<"m", "o", "o", "n">>, <<"o", "a", "k">>, <<"o", "w", "l">>, <<"p", "e", "a", "k">>,
       <<"p", "i", "n", "e">>, <<"p", "o", "n", "d">>, <<"r", "a", "i", "n">>, <<"r", "e", "e", "d">>,
       <<"r", "i", "d", "g", "e">>, <<"r", "o", "c", "k">>, <<"r", "o", "s", "e">>, <<"s", "a", "g", "e">>,
       <<"s", "h", "a", "d", "e">>, <<"s", "h", "o", "r", "e">>, <<"s", "k", "y">>, <<"s", "n", "o", "w">>,
       <<"s", "t", "a", "r">>, <<"s", "t", "o", "r", "m">>, <<"s", "t", "o", "n", "e">>, <<"v", "a", "l", "e">> >>

\* The first two bytes of sha256.Sum256 of the DIDs in use.
Sha256Head(did) ==
    CASE did = DID_A -> <<227, 18>>
      [] did = DID_B -> <<229, 169>>

\* PetnameFromDID: adjectives[h[0] % 64] + "-" + nouns[h[1] % 64] (Go indexes
\* from 0).
PetnameFromDID(did) ==
    adjectives[(Sha256Head(did)[1] % 64) + 1] \o <<"-">> \o nouns[(Sha256Head(did)[2] % 64) + 1]

\* The empty string where a formatted time is expected.
NoTimeText == [rfc3339 |-> ZeroTime]

\* FollowEntry
FollowEntry(did, alias, addedAt, lastSeenCids) ==
    [did |-> did, alias |-> alias, addedAt |-> addedAt, lastSeenCids |-> lastSeenCids]

\* json.MarshalIndent of the follow list under the struct tags: alias, addedAt
\* and lastSeenCids are omitted when empty.
MarshalFollowing(entries) ==
    [json |-> [i \in 1..Len(entries) |->
        [did |-> entries[i].did]
        @@ OmitEmpty(entries[i].alias # <<>>, "alias", entries[i].alias)
        @@ OmitEmpty(entries[i].addedAt # NoTimeText, "addedAt", entries[i].addedAt)
        @@ OmitEmpty(entries[i].lastSeenCids # <<>>, "lastSeenCids", entries[i].lastSeenCids)]]

\* json.Unmarshal(data, &entries): absent keys keep the zero value.
UnmarshalFollowing(data) ==
    [i \in 1..Len(data.json) |->
        LET j == data.json[i]
        IN  FollowEntry(j.did,
                        IF "alias" \in DOMAIN j THEN j.alias ELSE <<>>,
                        IF "addedAt" \in DOMAIN j THEN j.addedAt ELSE NoTimeText,
                        IF "lastSeenCids" \in DOMAIN j THEN j.lastSeenCids ELSE <<>>)]

\* following.json before the first save: no such file.
NoFollowing == [exists |-> FALSE, data |-> MarshalFollowing(<<>>)]

\* loadFollowing: the empty list when there is no file.
loadFollowing(file) == IF file.exists THEN UnmarshalFollowing(file.data) ELSE <<>>

\* saveFollowing: SafeWrite of the marshalled list.
saveFollowing(entries) == [exists |-> TRUE, data |-> MarshalFollowing(entries)]

\* Follow without the search for the DID in the list.
FollowWithoutDuplicateCheck(file, did, alias, now) ==
    LET entries == loadFollowing(file)
        name == IF alias = <<>> THEN PetnameFromDID(did) ELSE alias
    IN  IF ~HasPrefix(did, DidKeyPrefix) THEN [err |-> "invalid", file |-> file]
        ELSE [err |-> "",
              file |-> saveFollowing(Append(entries,
                           FollowEntry(did, name, TimeJSON(now), <<>>)))]

\* Follow(did, alias) at time now, under fm.mu: the error and the file after.
Follow(file, did, alias, now) ==
    LET entries == loadFollowing(file)
        name == IF alias = <<>> THEN PetnameFromDID(did) ELSE alias
    IN  IF ~HasPrefix(did, DidKeyPrefix) THEN [err |-> "invalid", file |-> file]
        ELSE IF \E i \in 1..Len(entries) : entries[i].did = did
             THEN [err |-> "already", file |-> file]
        ELSE [err |-> "",
              file |-> saveFollowing(Append(entries,
                           FollowEntry(did, name, TimeJSON(now), <<>>)))]

\* Unfollow(didOrAlias) under fm.mu: the first entry with that DID or alias
\* is removed.
Unfollow(file, didOrAlias) ==
    LET entries == loadFollowing(file)
        hits == {i \in 1..Len(entries) :
                    entries[i].did = didOrAlias \/ entries[i].alias = didOrAlias}
    IN  IF hits = {} THEN [err |-> "not_following", file |-> file]
        ELSE LET i == CHOOSE h \in hits : \A g \in hits : h <= g
             IN  [err |-> "",
                  file |-> saveFollowing(SubSeq(entries, 1, i - 1)
                                             \o SubSeq(entries, i + 1, Len(entries)))]

\* maxFeedEntries (100 in the source), scaled down.
maxFeedEntries == 3

\* The DID of the repository's identity.
OwnDID == DidKeyPrefix \o <<"L">>

\* FeedIndex
FeedIndex(author, posts) == [author |-> author, posts |-> posts]

\* json.MarshalIndent of a feed index, and json.Unmarshal into one.
MarshalFeedIndex(feed) ==
    [json |-> [author |-> feed.author,
               posts |-> [i \in 1..Len(feed.posts) |->
                             [cid |-> feed.posts[i].cid, timestamp |-> feed.posts[i].timestamp]]]]

UnmarshalFeedIndex(data) ==
    FeedIndex(data.json.author,
              [i \in 1..Len(data.json.posts) |->
                  [cid |-> data.json.posts[i].cid, timestamp |-> data.json.posts[i].timestamp]])

\* feed.json before the first save: no such file.
NoFeedIndex == [exists |-> FALSE, data |-> MarshalFeedIndex(FeedIndex(<<>>, <<>>))]

\* loadFeedIndex: nil when there is no file.
loadFeedIndex(file) ==
    IF file.exists THEN [nil |-> FALSE, feed |-> UnmarshalFeedIndex(file.data)]
    ELSE [nil |-> TRUE, feed |-> FeedIndex(<<>>, <<>>)]

\* saveFeedIndex: SafeWrite of the marshalled index.
saveFeedIndex(feed) == [exists |-> TRUE, data |-> MarshalFeedIndex(feed)]

\* A feed update that appends the new entry and keeps the first entries.
UpdateFeedIndexAtEnd(file, author, cid, now) ==
    LET l == loadFeedIndex(file)
        feed == IF l.nil THEN FeedIndex(author, <<>>) ELSE l.feed
        posts == Append(feed.posts, [cid |-> cid, timestamp |-> TimeJSON(now)])
    IN  saveFeedIndex(FeedIndex(feed.author,
            IF Len(posts) > maxFeedEntries THEN SubSeq(posts, 1, maxFeedEntries) ELSE posts))

\* PublishPost under fm.mu: the loaded index (a new one of the identity when
\* there is none) gets the entry {cid, now} at its front, is cut to
\* maxFeedEntries and saved.
UpdateFeedIndex(file, author, cid, now) ==
    LET l == loadFeedIndex(file)
        feed == IF l.nil THEN FeedIndex(author, <<>>) ELSE l.feed
        posts == <<[cid |-> cid, timestamp |-> TimeJSON(now)]>> \o feed.posts
    IN  saveFeedIndex(FeedIndex(feed.author,
            IF Len(posts) > maxFeedEntries THEN SubSeq(posts, 1, maxFeedEntries) ELSE posts))

\* ------------------------------------------------- canonical JSON in bytes

\* A Go value given to json.Marshal: a string, an int (its decimal text), a
\* slice, or a map[string]interface{} with its pairs in the order of insertion.
GoString(text) == [k |-> "string", s |-> text, items |-> <<>>, m |-> EmptyFn]
GoInt(text) == [k |-> "int", s |-> text, items |-> <<>>, m |-> EmptyFn]
GoSlice(items) == [k |-> "slice", s |-> <<>>, items |-> items, m |-> EmptyFn]
GoMap(pairs) == [k |-> "map", s |-> <<>>, items |-> pairs, m |-> EmptyFn]

\* 2^53 and 2^53 + 1 in decimal.
TwoTo53 == <<"9", "0", "0", "7", "1", "9", "9", "2", "5", "4", "7", "4", "0", "9", "9", "2">>
TwoTo53Plus1 == <<"9", "0", "0", "7", "1", "9", "9", "2", "5", "4", "7", "4", "0", "9", "9", "3">>

\* A JSON number decoded into interface{} is a float64, and json.Marshal
\* writes a float64 of integral value below 1e21 as its integer digits: the
\* text comes back as it was unless the float64 nearest to the number is
\* another integer, as for 2^53 + 1.
Float64Text(text) == IF text = TwoTo53Plus1 THEN TwoTo53 ELSE text

RECURSIVE Raw(_)
\* json.Marshal followed by json.Unmarshal into interface{}: a map becomes a
\* map[string]interface{} (here a function of its keys; a key inserted twice
\* has its last value), a slice a []interface{}, an int a float64.
Raw(v) ==
    CASE v.k = "map" ->
            [k |-> "object", s |-> <<>>, items |-> <<>>,
             m |-> [key \in {v.items[i][1] : i \in 1..Len(v.items)} |->
                       LET last == CHOOSE i \in 1..Len(v.items) :
                                       /\ v.items[i][1] = key
                                       /\ \A j \in (i + 1)..Len(v.items) : v.items[j][1] # key
                       IN  Raw(v.items[last][2])]]
      [] v.k = "slice" ->
            [k |-> "array", s |-> <<>>, items |-> [i \in 1..Len(v.items) |-> Raw(v.items[i])],
             m |-> EmptyFn]
      [] v.k = "int" -> [k |-> "number", s |-> Float64Text(v.s), items |-> <<>>, m |-> EmptyFn]
      [] OTHER -> v

\* json.Marshal of a string with nothing to escape.
Quote(text) == <<"\"">> \o text \o <<"\"">>

\* The keys in the order the range over the map gave them.
keysAsRanged(keys) == keys

\* sort.Strings(keys)
sortStrings(keys) == SortStrings({keys[i] : i \in 1..Len(keys)})

\* The orders a range over a map of the keys S is given in: all of them for
\* up to MaxRangedKeys keys, and for more keys two of them, ascending and
\* descending.
MaxRangedKeys == 3
RangeOrders(S) ==
    IF Cardinality(S) <= MaxRangedKeys THEN MapOrders(S)
    ELSE LET up == SortStrings(S)
         IN  {up, [i \in 1..Len(up) |-> up[Len(up) + 1 - i]]}

RECURSIVE canonicalEncode(_), EncodeMembers(_, _), EncodeItems(_)
\* canonicalEncode: what it can return for a decoded value, the range over a
\* map giving the keys in any order. An object is "{", the members in the
\* order of the sorted keys with "," between them, and "}"; an array is "["
\* its items "]"; another value is json.Marshal of it.
canonicalEncode(v) ==
    CASE v.k = "object" ->
            UNION {{<<"{">> \o body \o <<"}">> : body \in EncodeMembers(v.m, sortStrings(keys))} :
                      keys \in RangeOrders(DOMAIN v.m)}
      [] v.k = "array" -> {<<"[">> \o body \o <<"]">> : body \in EncodeItems(v.items)}
      [] v.k = "string" -> {Quote(v.s)}
      [] OTHER -> {v.s}

\* The members of an object, in the order ks of its keys.
EncodeMembers(m, ks) ==
    IF ks = <<>> THEN {<<>>}
    ELSE {Quote(Head(ks)) \o <<":">> \o e \o (IF Len(ks) > 1 THEN <<",">> ELSE <<>>) \o r :
             e \in canonicalEncode(m[Head(ks)]), r \in EncodeMembers(m, Tail(ks))}

\* The items of an array.
EncodeItems(items) ==
    IF items = <<>> THEN {<<>>}
    ELSE {e \o (IF Len(items) > 1 THEN <<",">> ELSE <<>>) \o r :
             e \in canonicalEncode(Head(items)), r \in EncodeItems(Tail(items))}

\* CanonicalJSON(v) for a map or a slice: what it can return.
CanonicalJSONBytes(v) == canonicalEncode(Raw(v))

\* ---------------------------------------------------------------- did:key

base58Alphabet ==
    <<"1", "2", "3", "4", "5", "6", "7", "8", "9", "A", "B", "C", "D", "E", "F", "G", "H", "J",
      "K", "L", "M", "N", "P", "Q", "R", "S", "T", "U", "V", "W", "X", "Y", "Z", "a", "b", "c",
      "d", "e", "f", "g", "h", "i", "j", "k", "m", "n", "o", "p", "q", "r", "s", "t", "u", "v",
      "w", "x", "y", "z">>

\* 0xED, 0x01
ed25519Multicodec == <<237, 1>>

\* A sequence without the zeros it begins with.
StripZeros(digits) ==
    IF \A i \in 1..Len(digits) : digits[i] = 0 THEN <<>>
    ELSE SubSeq(digits, CHOOSE i \in 1..Len(digits) :
                            digits[i] # 0 /\ \A j \in 1..(i - 1) : digits[j] = 0,
                Len(digits))

\* A big.Int that is not negative: its digits in base 2^24 (three bytes to
\* a digit), the most significant first and not zero; zero is the empty
\* sequence.
Limb == 256 * 256 * 256

\* new(big.Int).SetBytes(bytes)
SetBytes(bytes) ==
    LET n == Len(bytes)
        limbs == (n + 2) \div 3
        ByteAt(k) == IF k >= 1 THEN bytes[k] ELSE 0
    IN  StripZeros([j \in 1..limbs |->
                       LET last == n - 3 * (limbs - j)
                       IN  ByteAt(last - 2) * 65536 + ByteAt(last - 1) * 256 + ByteAt(last)])

\* num.Bytes(): the bytes of the number, the most significant first and not
\* zero.
Bytes(num) ==
    StripZeros([k \in 1..(3 * Len(num)) |->
                   LET limb == num[(k + 2) \div 3]
                   IN  CASE (k - 1) % 3 = 0 -> limb \div 65536
                         [] (k - 1) % 3 = 1 -> (limb \div 256) % 256
                         [] OTHER -> limb % 256])

RECURSIVE MulAddFrom(_, _, _, _)
\* The digits 1..i of num times m, plus carry.
MulAddFrom(num, i, m, carry) ==
    IF i = 0 THEN (IF carry = 0 THEN <<>> ELSE <<carry>>)
    ELSE LET t == num[i] * m + carry
         IN  MulAddFrom(num, i - 1, m, t \div Limb) \o <<t % Limb>>

\* num.Mul(num, m) and num.Add(num, a), for m and a below 64.
MulAdd(num, m, a) == MulAddFrom(num, Len(num), m, a)

RECURSIVE DivModFrom(_, _, _, _, _)
\* Long division of num by d (below 64) from digit i on, with the quotient
\* so far and the remainder carried down.
DivModFrom(num, i, d, quo, rem) ==
    IF i > Len(num) THEN [quo |-> StripZeros(quo), mod |-> rem]
    ELSE LET cur == rem * Limb + num[i]
         IN  DivModFrom(num, i + 1, d, Append(quo, cur \div d), cur % d)

\* num.DivMod(num, d, mod)
DivMod(num, d) == DivModFrom(num, 1, d, <<>>, 0)

\* strings.IndexRune(base58Alphabet, c), counted from 0; -1 when c is not there.
IndexRune(c) ==
    IF \E i \in 1..Len(base58Alphabet) : base58Alphabet[i] = c
    THEN (CHOOSE i \in 1..Len(base58Alphabet) : base58Alphabet[i] = c) - 1
    ELSE -1

RECURSIVE EncodeLoop(_, _)
\* The loop of encodeDIDKey: while num > 0, divide by 58 and put the digit
\* of the remainder in front.
EncodeLoop(num, encoded) ==
    IF num = <<>> THEN encoded
    ELSE LET dm == DivMod(num, 58)
         IN  EncodeLoop(dm.quo, <<base58Alphabet[dm.mod + 1]>> \o encoded)

\* The zero bytes a sequence begins with.
LeadingZeros(bytes) == Len(bytes) - Len(StripZeros(bytes))

\* The base58btc encoding as encodeDIDKey computes it for bytes: the digits
\* of the number, and a "1" for each leading zero byte.
Base58btc(bytes) ==
    [i \in 1..LeadingZeros(bytes) |-> "1"] \o EncodeLoop(SetBytes(bytes), <<>>)

\* encodeDIDKey(publicKey)
encodeDIDKey(publicKey) == DidKeyPrefix \o Base58btc(ed25519Multicodec \o publicKey)

RECURSIVE DecodeLoop(_, _)
\* The loop of DecodeDIDKey over the first n characters of encoded: the
\* number, and err at a character outside the alphabet.
DecodeLoop(encoded, n) ==
    IF n = 0 THEN [err |-> FALSE, num |-> <<>>]
    ELSE LET before == DecodeLoop(encoded, n - 1)
             idx == IndexRune(encoded[n])
         IN  IF before.err \/ idx < 0 THEN [err |-> TRUE, num |-> <<>>]
             ELSE [err |-> FALSE, num |-> MulAdd(before.num, 58, idx)]

\* The padding of DecodeDIDKey: fewer than 34 bytes are put at the end of 34
\* zero bytes; 34 bytes or more are left as they are.
Pad34(prefixed) ==
    IF Len(prefixed) < 34 THEN [i \in 1..(34 - Len(prefixed)) |-> 0] \o prefixed ELSE prefixed

\* DecodeDIDKey(did): [err, key].
DecodeDIDKey(did) ==
    IF ~HasPrefix(did, DidKeyPrefix) THEN [err |-> TRUE, key |-> <<>>]
    ELSE LET encoded == SubSeq(did, Len(DidKeyPrefix) + 1, Len(did))
             dec == DecodeLoop(encoded, Len(encoded))
             prefixed == Pad34(Bytes(dec.num))
         IN  IF dec.err THEN [err |-> TRUE, key |-> <<>>]
             ELSE IF Len(prefixed) < 2 \/ prefixed[1] # ed25519Multicodec[1]
                        \/ prefixed[2] # ed25519Multicodec[2]
             THEN [err |-> TRUE, key |-> <<>>]
             ELSE [err |-> FALSE, key |-> SubSeq(prefixed, 3, Len(prefixed))]

\* ----------------------------------------------------------- signed posts

\* An Ed25519 key pair is its public key and the private key made of the
\* same seed. ed25519.Sign(key, message) is a value that names the public
\* half of the key and the message, and ed25519.Verify(publicKey, message,
\* sig) tells whether sig is the one made of them; it panics on a public key
\* that is not of 32 bytes.
PrivateKey(publicKey) == [public |-> publicKey]
Sign(key, message) == [public |-> key.public, message |-> message]
Verify(publicKey, message, sig) ==
    IF Len(publicKey) # 32 THEN [panic |-> TRUE, ok |-> FALSE]
    ELSE [panic |-> FALSE, ok |-> (sig.public = publicKey /\ sig.message = message)]

\* The Signature field: the empty string, or the base64 text of a signature.
NoSig == [public |-> <<>>, message |-> <<>>]
EmptySignature == [empty |-> TRUE, sig |-> NoSig]
EncodeToString(sig) == [empty |-> FALSE, sig |-> sig]
DecodeString(text) == text.sig

\* A Post with all its fields: v is the decimal text of the int, refs and
\* tags are sequences of strings (a nil slice is the empty sequence, as
\* signingPayload makes it), and the signature is empty.
UnsignedPost(v, type, content, author, refs, tags, timestamp) ==
    [v |-> v, type |-> type, content |-> content, author |-> author, refs |-> refs,
     tags |-> tags, timestamp |-> timestamp, signature |-> EmptySignature]

\* The []string as a Go value.
Strings(list) == GoSlice([i \in 1..Len(list) |-> GoString(list[i])])

\* signingPayload(post): what CanonicalJSON can return for the map of all
\* the fields but the signature.
signingPayload(post) ==
    CanonicalJSONBytes(GoMap(<<
        <<<<"v">>, GoInt(post.v)>>,
        <<<<"t", "y", "p", "e">>, GoString(post.type)>>,
        <<<<"c", "o", "n", "t", "e", "n", "t">>, GoString(post.content)>>,
        <<<<"a", "u", "t", "h", "o", "r">>, GoString(post.author)>>,
        <<<<"r", "e", "f", "s">>, Strings(post.refs)>>,
        <<<<"t", "a", "g", "s">>, Strings(post.tags)>>,
        <<<<"t", "i", "m", "e", "s", "t", "a", "m", "p">>, GoString(post.timestamp)>> >>))

\* SignPost(post, key): the signed posts it can return.
SignPost(post, key) ==
    {[post EXCEPT !.signature = EncodeToString(Sign(key, payload))] :
        payload \in signingPayload(post)}

\* VerifyPost with the author's DID decoded by decode: the results it can
\* have, [ok, err, panic].
VerifyPostWith(decode(_), post) ==
    IF post.signature.empty THEN {[ok |-> FALSE, err |-> FALSE, panic |-> FALSE]}
    ELSE LET pubBytes == decode(post.author)
         IN  IF pubBytes.err THEN {[ok |-> FALSE, err |-> TRUE, panic |-> FALSE]}
             ELSE {LET r == Verify(pubBytes.key, payload, DecodeString(post.signature))
                   IN  [ok |-> r.ok, err |-> FALSE, panic |-> r.panic] :
                      payload \in signingPayload(post)}

\* VerifyPost(post)
VerifyPost(post) == VerifyPostWith(DecodeDIDKey, post)

\* ------------------------------------------------------------------- state

Procs == {1, 2}

VARIABLES
    objs,       \* .mx/objects: file name (textual CID) -> bytes
    refs,       \* .mx/refs: file name -> content
    links,      \* LinkIndex: forward and reverse maps, and the journal file
    search,     \* SearchIndex: term -> IDs, type -> IDs
    headFile,   \* .mx/HEAD
    clock,      \* the wall clock: every time.Now() reads a later time
    pc,         \* where each handler is
    loc,        \* the locals of each handler's call
    nOps,       \* calls begun
    nSucc,      \* mutations that returned success
    bindLog,    \* history: every write and removal of a ref file, in order
    commitLog,  \* history: the CID of every commit whose HEAD write was made, in order
    hist,       \* history: every (refs, links) pair that existed at an instant
    coAccess,   \* CoAccessIndex: pair counts and the active session
    accessed,   \* history: every access event given to Record, in order
    coChange,   \* CoChangeIndex: pair counts
    related,    \* the last call of RelatednessIndex.Related and what it returned
    found,      \* the last call of SearchIndex.Search and what it returned
    following,  \* .mx/dagit/following.json
    fpc,        \* where each caller of the feed manager is
    floc,       \* the locals of each feed manager call
    syncer,     \* FeedSyncer: its channels, ticker and goroutine, and the caller of Stop
    feedLog,    \* history: the feed manager's and the syncer's events, in order
    pub,        \* the feed manager's publishing: .mx/dagit/feed.json
    unit        \* an operation exercised on its own: its arguments, progress and result

vars == <<objs, refs, links, search, headFile, clock, pc, loc, nOps, nSucc,
          bindLog, commitLog, hist, coAccess, accessed, coChange, related, found,
          following, fpc, floc, syncer, feedLog, pub, unit>>

\* The behavioral indexes and the results of the queries.
indexVars == <<coAccess, accessed, coChange, related, found>>

\* The feed manager and its syncer.
feedVars == <<following, fpc, floc, syncer, feedLog>>

\* The feed manager's publishing, and the operation exercised on its own.
sideVars == <<pub, unit>>

\* What the repository's mutations do not write.
behavioral == <<indexVars, feedVars, sideVars>>

\* The variables of the repository's files and handlers.
repoVars == <<objs, refs, links, search, headFile, clock, pc, loc, nOps, nSucc,
              bindLog, commitLog, hist>>

\* The ref-store mapping as List and the files give it: ID -> file content.
RefView(dir) == [id \in RefList(dir) |-> dir[refFilename(id)]]

\* The (refs, links) pair of an instant.
Snapshot(dir, idx) == [refs |-> RefView(dir), links |-> AllEntries(idx)]

\* The locals of a handler that has not been called.
NoCall ==
    [op |-> "none", id |-> <<>>, typ |-> <<>>, content |-> <<>>, meta |-> EmptyFn,
     force |-> FALSE, link |-> LinkEntry(<<>>, <<>>, <<>>),
     cur |-> ZeroEnvelope, prev |-> EmptyText, node |-> ZeroEnvelope, cid |-> Undef,
     ids |-> <<>>, refsMap |-> EmptyFn, allLinks |-> <<>>, parent |-> EmptyText,
     message |-> <<>>, ccid |-> Undef, res |-> "none", created |-> FALSE,
     refBefore |-> EmptyText, boundBefore |-> FALSE]

\* No call of Related yet.
NoRelated == [called |-> FALSE, nodeID |-> <<>>, limit |-> 0, ids |-> <<>>]

\* The callers of the feed manager: a filesystem request handler and the
\* background syncer.
FeedProcs == {"user", "syncer"}

\* The locals of a feed manager call that has not been made.
NoFeedCall ==
    [op |-> "none", did |-> <<>>, alias |-> <<>>, cid |-> <<>>, entries |-> <<>>, i |-> 0,
     posts |-> <<>>, j |-> 0, ingested |-> 0, lines |-> <<>>, res |-> "none"]

\* NewFeedSyncer: both channels open, no goroutine, nobody in Stop.
NewFeedSyncer ==
    [g |-> "none", stopCh |-> "open", doneCh |-> "open", tick |-> FALSE, fired |-> 0,
     stop |-> "none"]

\* No call of Search yet.
NoSearch == [called |-> FALSE, query |-> <<>>, limit |-> 0, ids |-> <<>>, index |-> EmptySearch]

\* OpenRepository on an empty directory: the files and the handlers.
InitRepo ==
    /\ objs = EmptyFn
    /\ refs = EmptyFn
    /\ links = EmptyLinks
    /\ search = EmptySearch
    /\ headFile = NoHead
    /\ clock = 1
    /\ pc = [p \in Procs |-> "idle"]
    /\ loc = [p \in Procs |-> NoCall]
    /\ nOps = 0
    /\ nSucc = 0
    /\ bindLog = <<>>
    /\ commitLog = <<>>
    /\ hist = {Snapshot(EmptyFn, EmptyLinks)}

\* No operation is exercised on its own.
NoUnit == [op |-> "none"]

\* NewFeedManager on a data directory without feed.json.
NewPublishing == [feedFile |-> NoFeedIndex]

\* OpenRepository on an empty directory, and the feed manager on it.
InitProgram ==
    /\ InitRepo
    /\ coAccess = EmptyCoAccess
    /\ accessed = <<>>
    /\ coChange = EmptyCoChange
    /\ related = NoRelated
    /\ found = NoSearch
    /\ following = NoFollowing
    /\ fpc = [q \in FeedProcs |-> "idle"]
    /\ floc = [q \in FeedProcs |-> NoFeedCall]
    /\ syncer = NewFeedSyncer
    /\ feedLog = <<>>
    /\ pub = NewPublishing

Init == InitProgram /\ unit = NoUnit


\* ---------------------------------------------------------------- handlers

\* The history of (refs, links) pairs grows with every step that changes one.
Hist == hist' = hist \cup {Snapshot(refs', links')}

Mutations == {"CreateNode", "UpdateNode", "UpdateContent", "DeleteNode", "CreateLink", "Ingest"}

\* The locals of a call of `op` on `id`, with what the ref file of id held when
\* the call was made.
Call(op, id) ==
    [NoCall EXCEPT !.op = op, !.id = id,
                   !.boundBefore = RefHas(refs, id),
                   !.refBefore = IF RefHas(refs, id) THEN refs[refFilename(id)]
                                 ELSE EmptyText]

\* A call begins: handler p goes to the first step of the operation.
Enter(p, call, first) ==
    /\ pc[p] = "idle"
    /\ pc' = [pc EXCEPT ![p] = first]
    /\ loc' = [loc EXCEPT ![p] = call]
    /\ nOps' = nOps + 1
    /\ UNCHANGED <<objs, refs, links, search, headFile, clock, nSucc, bindLog, commitLog, hist>>

\* A call returns: `res` is "ok" or the error.
Return(p, res) ==
    /\ pc' = [pc EXCEPT ![p] = "idle"]
    /\ nSucc' = IF res = "ok" /\ loc[p].op \in Mutations THEN nSucc + 1 ELSE nSucc

\* The message of the commit a mutation asks for.
Message(l) ==
    CASE l.op \in {"CreateNode", "Ingest"} -> <<"c", "r", "e", "a", "t", "e", " ">> \o l.id
      [] l.op = "UpdateNode" ->
            <<"u", "p", "d", "a", "t", "e", " ", "m", "e", "t", "a", " ">> \o l.id
      [] l.op = "UpdateContent" ->
            <<"u", "p", "d", "a", "t", "e", " ", "c", "o", "n", "t", "e", "n", "t", " ">>
            \o l.id
      [] l.op = "DeleteNode" -> <<"d", "e", "l", "e", "t", "e", " ">> \o l.id
      [] l.op = "CreateLink" ->
            <<"l", "i", "n", "k", " ">> \o l.link.source \o <<" ", "-", "[">>
            \o l.link.type \o <<"]", "-", ">", " ">> \o l.link.target

\* Repository.CreateNode(id, typ, content, meta) is called.
BeginCreateNode(p, D) ==
    \E id \in D.ids, a \in D.creates :
        Enter(p, [Call("CreateNode", id) EXCEPT !.typ = a.typ, !.content = a.content,
                                                !.meta = a.meta], "put")

\* Repository.UpdateNode(id, metaUpdates) is called.
BeginUpdateNode(p, D) ==
    \E id \in D.ids, patch \in D.patches :
        Enter(p, [Call("UpdateNode", id) EXCEPT !.meta = patch], "load")

\* Repository.UpdateContent(id, content) is called.
BeginUpdateContent(p, D) ==
    \E id \in D.ids, c \in D.contents :
        Enter(p, [Call("UpdateContent", id) EXCEPT !.content = c], "load")

\* Repository.DeleteNode(id, force) is called.
BeginDeleteNode(p, D) ==
    \E id \in D.deletes, force \in BOOLEAN :
        Enter(p, [Call("DeleteNode", id) EXCEPT !.force = force],
              IF force THEN "unindex_hard" ELSE "load")

\* Repository.CreateLink(source, target, linkType) is called.
BeginCreateLink(p, D) ==
    \E l \in D.links :
        Enter(p, [Call("CreateLink", l.source) EXCEPT !.link = l], "link_add")

\* Repository.Ingest(content, format) is called.
BeginIngest(p, D) ==
    \E c \in D.ingests :
        Enter(p, [Call("Ingest", IngestID(c)) EXCEPT !.content = c], "ingest_has")

\* Repository.GetNode(id) is called.
BeginGetNode(p, D) ==
    \E id \in D.ids : Enter(p, Call("GetNode", id), "get")

\* getNodeEnvelope on the files as they are: the envelope or the error.
GetNodeEnvelope(dir, store, id) ==
    LET r == RefGet(dir, id)
        g == ObjectStoreGet(store, r.cid)
    IN  IF r.err # "" THEN [err |-> r.err, node |-> ZeroEnvelope]
        ELSE IF ~g.ok THEN [err |-> "no_object", node |-> ZeroEnvelope]
        ELSE [err |-> "", node |-> UnmarshalNode(g.data)]

\* A GetNode that does not look at the deleted flag.
GetNodeIgnoringDeleted(dir, store, id) == GetNodeEnvelope(dir, store, id)

\* Repository.GetNode on the files as they are.
GetNode(dir, store, id) ==
    LET e == GetNodeEnvelope(dir, store, id)
    IN  IF e.err = "" /\ e.node.deleted THEN [err |-> "deleted", node |-> ZeroEnvelope]
        ELSE e

\* Repository.ListNodes(limit): the IDs of the ref files whose envelope reads
\* and is not deleted (in the order of the directory listing, here sorted).
ListNodes(dir, store, limit) ==
    LET ids == SortStrings({id \in RefList(dir) :
                   LET e == GetNodeEnvelope(dir, store, id)
                   IN  e.err = "" /\ ~e.node.deleted})
    IN  IF limit > 0 /\ Len(ids) > limit THEN SubSeq(ids, 1, limit) ELSE ids

\* Repository.FilterNodes(typ, limit): GetNode of every ID FilterByType gives,
\* in order; an ID whose GetNode fails is skipped.
RECURSIVE NodesOf(_, _, _)
NodesOf(dir, store, ids) ==
    IF ids = <<>> THEN <<>>
    ELSE LET e == GetNode(dir, store, Head(ids))
         IN  (IF e.err = "" THEN <<e.node>> ELSE <<>>) \o NodesOf(dir, store, Tail(ids))

FilterNodes(s, dir, store, typ, limit) == NodesOf(dir, store, FilterByType(s, typ, limit))

RECURSIVE IndexAll(_, _, _, _)
\* The loop of rebuildSearchIndex over the listed IDs: a ref that does not
\* resolve is skipped, a tombstone is not indexed.
IndexAll(s, ids, dir, store) ==
    IF ids = <<>> THEN s
    ELSE LET e == GetNodeEnvelope(dir, store, Head(ids))
             next == IF e.err = "" /\ ~e.node.deleted THEN IndexNode(s, Head(ids), e.node)
                     ELSE s
         IN  IndexAll(next, Tail(ids), dir, store)

\* rebuildSearchIndex on the files as they are: the index OpenRepository
\* builds from the refs.
rebuildSearchIndex(dir, store) ==
    IndexAll(EmptySearch, SortStrings(RefList(dir)), dir, store)

\* GetNode: the ref file and then the object are read. (An object is never
\* rewritten or removed, so reading it in the same step as the ref loses no
\* interleaving.)
GetStep(p) ==
    /\ pc[p] = "get"
    /\ LET e == GetNode(refs, objs, loc[p].id)
       IN  /\ loc' = [loc EXCEPT ![p].res = IF e.err = "" THEN "ok" ELSE e.err,
                                 ![p].cur = e.node]
           /\ Return(p, IF e.err = "" THEN "ok" ELSE e.err)
    /\ UNCHANGED <<objs, refs, links, search, headFile, clock, nOps, bindLog,
                   commitLog, hist>>

\* A load that does not look at the deleted flag: a tombstone is updated.
LoadIgnoringDeleted(p) ==
    /\ pc[p] = "load"
    /\ LET e == GetNodeEnvelope(refs, objs, loc[p].id)
       IN  IF e.err # ""
           THEN /\ loc' = [loc EXCEPT ![p].res = e.err]
                /\ Return(p, e.err)
           ELSE /\ loc' = [loc EXCEPT ![p].cur = e.node]
                /\ pc' = [pc EXCEPT ![p] = "prev"]
                /\ UNCHANGED nSucc
    /\ UNCHANGED <<objs, refs, links, search, headFile, clock, nOps, bindLog,
                   commitLog, hist>>

\* UpdateNode, UpdateContent, DeleteNode(soft): current := getNodeEnvelope(id);
\* an error returns, and so does a deleted envelope for the two updates.
Load(p) ==
    /\ pc[p] = "load"
    /\ LET e == GetNodeEnvelope(refs, objs, loc[p].id)
           err == IF e.err # "" THEN e.err
                  ELSE IF e.node.deleted /\ loc[p].op # "DeleteNode" THEN "deleted"
                  ELSE ""
       IN  IF err # ""
           THEN /\ loc' = [loc EXCEPT ![p].res = err]
                /\ Return(p, err)
           ELSE /\ loc' = [loc EXCEPT ![p].cur = e.node]
                /\ pc' = [pc EXCEPT ![p] = "prev"]
                /\ UNCHANGED nSucc
    /\ UNCHANGED <<objs, refs, links, search, headFile, clock, nOps, bindLog,
                   commitLog, hist>>

\* An update that does not read the current CID: prev stays empty.
ReadPrevSkipped(p) ==
    /\ pc[p] = "prev"
    /\ pc' = [pc EXCEPT ![p] = "put"]
    /\ UNCHANGED <<objs, refs, links, search, headFile, clock, loc, nOps, nSucc, bindLog,
                   commitLog, hist>>

\* prevCID, _ := r.Refs.Get(id): the error is dropped and Undef is kept.
ReadPrev(p) ==
    /\ pc[p] = "prev"
    /\ loc' = [loc EXCEPT ![p].prev = CIDToFilename(RefGet(refs, loc[p].id).cid)]
    /\ pc' = [pc EXCEPT ![p] = "put"]
    /\ UNCHANGED <<objs, refs, links, search, headFile, clock, nOps, nSucc, bindLog,
                   commitLog, hist>>

\* A merge that stores a nil value instead of deleting the key.
MergeMetaKeepingNil(meta, patch) ==
    [k \in DOMAIN meta \cup DOMAIN patch |->
        IF k \in DOMAIN patch THEN patch[k] ELSE meta[k]]

\* The metadata merge of UpdateNode: a nil value deletes the key, any other
\* value is set.
MergeMeta(meta, patch) ==
    [k \in {k2 \in DOMAIN meta \cup DOMAIN patch :
                ~(k2 \in DOMAIN patch /\ patch[k2] = Null)} |->
        IF k \in DOMAIN patch THEN patch[k] ELSE meta[k]]

\* The metadata Ingest gives its Source node.
IngestMeta(content) == [format |-> [str |-> F_TEXT], size_bytes |-> [num |-> Len(content)]]

\* The envelope a mutation builds at time `now`.
BuildNode(l, now) ==
    CASE l.op = "CreateNode" ->
            NodeEnvelope(l.id, l.typ, l.content, l.meta, now, now, EmptyText, FALSE)
      [] l.op = "Ingest" ->
            NodeEnvelope(l.id, T_SOURCE, l.content, IngestMeta(l.content), now, now,
                         EmptyText, FALSE)
      [] l.op = "UpdateNode" ->
            NodeEnvelope(l.id, l.cur.type, l.cur.content, MergeMeta(l.cur.meta, l.meta),
                         l.cur.created, now, l.prev, FALSE)
      [] l.op = "UpdateContent" ->
            NodeEnvelope(l.id, l.cur.type, l.content, l.cur.meta, l.cur.created, now,
                         l.prev, FALSE)
      [] l.op = "DeleteNode" ->
            NodeEnvelope(l.id, l.cur.type, <<>>, l.cur.meta, l.cur.created, now,
                         l.prev, TRUE)

\* The history entry of a write (bound) or a removal of a ref file by call l:
\* the file, the call's ID and arguments, and the text written.
Bind(l, text, bound) ==
    [file |-> refFilename(l.id), id |-> l.id, text |-> text, op |-> l.op, bound |-> bound,
     typ |-> l.typ, content |-> l.content, meta |-> l.meta]

\* The envelope is built with now := time.Now(), serialized and Put, and
\* Refs.Set opens the ref file, which truncates it. (The Put adds an object no
\* other handler can name yet, so it is taken in the same step as the open.)
PutAndOpenRef(p) ==
    /\ pc[p] = "put"
    /\ LET node == BuildNode(loc[p], clock)
           data == CanonicalJSON(node)
       IN  /\ objs' = ObjectStorePut(objs, data)
           /\ loc' = [loc EXCEPT ![p].node = node, ![p].cid = ComputeCID(data)]
    /\ refs' = RefSetTruncate(refs, loc[p].id)
    /\ clock' = clock + 1
    /\ pc' = [pc EXCEPT ![p] = "set_write"]
    /\ UNCHANGED <<links, search, headFile, nOps, nSucc, bindLog, commitLog>>
    /\ Hist

\* Refs.Set writes the textual CID into the opened ref file.
WriteRef(p) ==
    /\ pc[p] = "set_write"
    /\ refs' = RefSetWrite(refs, loc[p].id, loc[p].cid)
    /\ bindLog' = Append(bindLog, Bind(loc[p], CIDToFilename(loc[p].cid), TRUE))
    /\ pc' = [pc EXCEPT ![p] = IF loc[p].op \in {"CreateNode", "Ingest"} THEN "index"
                                ELSE "unindex"]
    /\ UNCHANGED <<objs, links, search, headFile, clock, loc, nOps, nSucc, commitLog>>
    /\ Hist

\* Search.RemoveNode(id) of UpdateNode, UpdateContent and DeleteNode(soft).
Unindex(p) ==
    /\ pc[p] = "unindex"
    /\ search' = RemoveNode(search, loc[p].id)
    /\ pc' = [pc EXCEPT ![p] = IF loc[p].op = "DeleteNode" THEN "commit_list" ELSE "index"]
    /\ UNCHANGED <<objs, refs, links, headFile, clock, loc, nOps, nSucc, bindLog,
                   commitLog, hist>>

\* Search.IndexNode(id, node) of CreateNode, UpdateNode and UpdateContent.
Index(p) ==
    /\ pc[p] = "index"
    /\ search' = IndexNode(search, loc[p].id, loc[p].node)
    /\ pc' = [pc EXCEPT ![p] = "commit_list"]
    /\ UNCHANGED <<objs, refs, links, headFile, clock, loc, nOps, nSucc, bindLog,
                   commitLog, hist>>

\* DeleteNode(id, force=true): Search.RemoveNode(id).
UnindexHard(p) ==
    /\ pc[p] = "unindex_hard"
    /\ search' = RemoveNode(search, loc[p].id)
    /\ pc' = [pc EXCEPT ![p] = "ref_delete"]
    /\ UNCHANGED <<objs, refs, links, headFile, clock, loc, nOps, nSucc, bindLog,
                   commitLog, hist>>

\* DeleteNode(id, force=true): Refs.Delete(id); os.Remove of a missing file is
\* the error the call returns.
DeleteRef(p) ==
    /\ pc[p] = "ref_delete"
    /\ IF RefHas(refs, loc[p].id)
       THEN /\ refs' = RefDelete(refs, loc[p].id)
            /\ bindLog' = Append(bindLog, Bind(loc[p], EmptyText, FALSE))
            /\ pc' = [pc EXCEPT ![p] = "commit_list"]
            /\ UNCHANGED <<loc, nSucc>>
       ELSE /\ loc' = [loc EXCEPT ![p].res = "not_found"]
            /\ Return(p, "not_found")
            /\ UNCHANGED <<refs, bindLog>>
    /\ UNCHANGED <<objs, links, search, headFile, clock, nOps, commitLog>>
    /\ Hist

\* CreateLink: Links.Add(entry).
AddLink(p) ==
    /\ pc[p] = "link_add"
    /\ links' = LinkAdd(links, loc[p].link)
    /\ pc' = [pc EXCEPT ![p] = "commit_list"]
    /\ UNCHANGED <<objs, refs, search, headFile, clock, loc, nOps, nSucc, bindLog,
                   commitLog>>
    /\ Hist

\* Ingest: if r.Refs.Has(id), return (id, false); else CreateNode.
IngestHas(p) ==
    /\ pc[p] = "ingest_has"
    /\ IF RefHas(refs, loc[p].id)
       THEN /\ loc' = [loc EXCEPT ![p].res = "ok", ![p].created = FALSE]
            /\ pc' = [pc EXCEPT ![p] = "idle"]
       ELSE /\ loc' = [loc EXCEPT ![p].created = TRUE]
            /\ pc' = [pc EXCEPT ![p] = "put"]
    /\ UNCHANGED <<objs, refs, links, search, headFile, clock, nOps, nSucc, bindLog,
                   commitLog, hist>>


\* ------------------------------------------------- Commit, step by step

\* Commit: ids := refs.List(); sort.Strings(ids).
CommitList(p) ==
    /\ pc[p] = "commit_list"
    /\ LET ids == SortStrings(RefList(refs))
       IN  /\ loc' = [loc EXCEPT ![p].ids = ids, ![p].refsMap = EmptyFn,
                                 ![p].message = Message(loc[p])]
           /\ pc' = [pc EXCEPT ![p] = IF ids = <<>> THEN "commit_links" ELSE "commit_get"]
    /\ UNCHANGED <<objs, refs, links, search, headFile, clock, nOps, nSucc, bindLog,
                   commitLog, hist>>

\* Commit: one round of the loop over ids: c, err := refs.Get(id); an ID whose
\* ref does not read is skipped.
CommitGet(p) ==
    /\ pc[p] = "commit_get"
    /\ LET id == Head(loc[p].ids)
           r == RefGet(refs, id)
       IN  /\ loc' = [loc EXCEPT ![p].ids = Tail(loc[p].ids),
                                 ![p].refsMap = IF r.err = ""
                                                THEN (id :> CIDToFilename(r.cid)) @@ @
                                                ELSE @]
           /\ pc' = [pc EXCEPT ![p] = IF Tail(loc[p].ids) = <<>> THEN "commit_links"
                                       ELSE "commit_get"]
    /\ UNCHANGED <<objs, refs, links, search, headFile, clock, nOps, nSucc, bindLog,
                   commitLog, hist>>

\* Commit: allLinks := links.AllEntries(), sorted.
CommitLinks(p) ==
    /\ pc[p] = "commit_links"
    /\ loc' = [loc EXCEPT ![p].allLinks = SortLinks(AllEntries(links))]
    /\ pc' = [pc EXCEPT ![p] = "commit_head"]
    /\ UNCHANGED <<objs, refs, links, search, headFile, clock, nOps, nSucc, bindLog,
                   commitLog, hist>>

\* A Commit that never reads HEAD: every commit is a root.
CommitHeadNoParent(p) ==
    /\ pc[p] = "commit_head"
    /\ loc' = [loc EXCEPT ![p].parent = EmptyText]
    /\ pc' = [pc EXCEPT ![p] = "commit_write"]
    /\ UNCHANGED <<objs, refs, links, search, headFile, clock, nOps, nSucc, bindLog,
                   commitLog, hist>>

\* Commit: the current HEAD is read as the parent ("" when there is none).
CommitHead(p) ==
    /\ pc[p] = "commit_head"
    /\ loc' = [loc EXCEPT ![p].parent = IF HeadOf(headFile) # Undef
                                        THEN CIDToFilename(HeadOf(headFile))
                                        ELSE EmptyText]
    /\ pc' = [pc EXCEPT ![p] = "commit_write"]
    /\ UNCHANGED <<objs, refs, links, search, headFile, clock, nOps, nSucc, bindLog,
                   commitLog, hist>>

\* Commit: the commit object is built with time.Now(), serialized and Put, its
\* textual CID is written to HEAD by SafeWrite, and the mutation returns.
\* (As for an envelope, the Put is taken in the step of the write that
\* publishes the object.)
CommitWrite(p) ==
    /\ pc[p] = "commit_write"
    /\ LET commit == CommitObject(loc[p].parent, clock, loc[p].refsMap, loc[p].allLinks,
                                  loc[p].message)
           data == CanonicalCommit(commit)
           c == ComputeCID(data)
       IN  /\ objs' = ObjectStorePut(objs, data)
           /\ headFile' = [exists |-> TRUE, line |-> CIDToFilename(c)]
           /\ commitLog' = Append(commitLog, c)
           /\ loc' = [loc EXCEPT ![p].ccid = c, ![p].res = "ok"]
    /\ clock' = clock + 1
    /\ Return(p, "ok")
    /\ UNCHANGED <<refs, links, search, nOps, bindLog, hist>>

\* One step of a handler that is inside a call.
Step(p) ==
    \/ GetStep(p)
    \/ Load(p)
    \/ ReadPrev(p)
    \/ PutAndOpenRef(p)
    \/ WriteRef(p)
    \/ Unindex(p)
    \/ Index(p)
    \/ UnindexHard(p)
    \/ DeleteRef(p)
    \/ AddLink(p)
    \/ IngestHas(p)
    \/ CommitList(p)
    \/ CommitGet(p)
    \/ CommitLinks(p)
    \/ CommitHead(p)
    \/ CommitWrite(p)

\* A call of any operation of the facade.
Begin(p, D) ==
    \/ BeginCreateNode(p, D)
    \/ BeginUpdateNode(p, D)
    \/ BeginUpdateContent(p, D)
    \/ BeginDeleteNode(p, D)
    \/ BeginCreateLink(p, D)
    \/ BeginIngest(p, D)
    \/ BeginGetNode(p, D)

\* The arguments of the calls of the sequential specification. DeleteNode is
\* also called on the ID Ingest gives its node.
SeqArgs ==
    [ids |-> IDs, creates |-> CreateArgs, patches |-> Patches,
     contents |-> UpdateContents, links |-> LinkArgs, ingests |-> IngestContents,
     deletes |-> IDs \cup {IngestID(c) : c \in IngestContents}]

\* The arguments of the calls of the concurrent specification: one ID for the
\* node operations (Ingest and CreateLink name others), one argument list each.
ConcArgs ==
    [ids |-> {ID_C},
     creates |-> {[typ |-> T_NOTE, content |-> C_HI, meta |-> M_K1]},
     patches |-> {[k1 |-> Null, k2 |-> [str |-> V_TWO]]},
     contents |-> UpdateContents,
     links |-> {[source |-> ID_N, target |-> ID_C, type |-> L_REFS]},
     ingests |-> IngestContents,
     deletes |-> {ID_C}]

\* The envelopes whose bytes the object store is given directly.
StoreEnvelopes ==
    {NodeEnvelope(id, a.typ, a.content, a.meta, 1, 1, EmptyText, FALSE) :
        id \in IDs, a \in CreateArgs} \cup {ZeroEnvelope}

\* ObjectStore.Put(data) called directly: the store after it, and in the
\* caller's locals the bytes given (as the envelope they encode), the CID
\* returned and whether the object was there before the call.
StorePut(p) ==
    \E n \in StoreEnvelopes :
        LET data == CanonicalJSON(n)
        IN  /\ objs' = ObjectStorePut(objs, data)
            /\ loc' = [loc EXCEPT ![p] = [NoCall EXCEPT !.op = "Put", !.node = n,
                                            !.cid = ComputeCID(data),
                                            !.boundBefore = ObjectStoreHas(objs, ComputeCID(data))]]
            /\ UNCHANGED <<refs, links, search, headFile, clock, pc, nOps, nSucc, bindLog,
                           commitLog, hist>>
            /\ UNCHANGED behavioral

\* The object store alone: any sequence of Put calls.
StoreSpec == Init /\ [][StorePut(1)]_vars

\* The triples the link index is given directly: two sources, two targets,
\* and one pair of IDs under two types.
LinkTriples ==
    {LinkEntry(src, tgt, L_REFS) : src \in {ID_N, ID_C}, tgt \in {ID_N, ID_C}}
        \cup {LinkEntry(ID_N, ID_C, T_NOTE)}

\* LinkIndex.Add(entry) called directly: the index after it, and the entry in
\* the caller's locals.
LinkAddCall(p) ==
    \E entry \in LinkTriples :
        /\ links' = LinkAdd(links, entry)
        /\ loc' = [loc EXCEPT ![p] = [NoCall EXCEPT !.op = "Add", !.link = entry]]
        /\ UNCHANGED <<objs, refs, search, headFile, clock, pc, nOps, nSucc, bindLog,
                       commitLog, hist>>
        /\ UNCHANGED behavioral

\* The link index alone: any sequence of Add calls.
LinkSpec == Init /\ [][LinkAddCall(1)]_vars

\* The queries: one term, and two terms of which a node can match both.
Q_HI == <<"h", "i">>
Q_NOTE_N1 == <<"n", "o", "t", "e", " ", "n", "1">>
Queries == {Q_HI, Q_NOTE_N1}

\* The limits of the queries: no cap, and a cap below the number of matches.
SearchLimits == {0, 1}

\* Every variable but the search index and the result of the last query.
notSearch == <<objs, refs, links, headFile, clock, pc, loc, nOps, nSucc, bindLog,
               commitLog, hist, coAccess, accessed, coChange, related, feedVars, sideVars>>

\* SearchIndex.IndexNode(id, node) called directly.
IndexNodeCall ==
    /\ \E id \in IDs, a \in CreateArgs :
        search' = IndexNode(search, id,
                            NodeEnvelope(id, a.typ, a.content, a.meta, 1, 1, EmptyText, FALSE))
    /\ UNCHANGED <<notSearch, found>>

\* SearchIndex.RemoveNode(id) called directly.
RemoveNodeCall ==
    /\ \E id \in IDs : search' = RemoveNode(search, id)
    /\ UNCHANGED <<notSearch, found>>

\* A read of a search directory: Search(query, limit), and the index it ran on.
SearchCall ==
    /\ \E query \in Queries, limit \in SearchLimits :
        \E ids \in Search(search, query, limit) :
            found' = [called |-> TRUE, query |-> query, limit |-> limit, ids |-> ids,
                      index |-> search]
    /\ UNCHANGED <<notSearch, search>>

\* The search index alone: any sequence of IndexNode, RemoveNode and Search.
SearchSpec == Init /\ [][IndexNodeCall \/ RemoveNodeCall \/ SearchCall]_vars

\* Sequential use: one handler, one call at a time.
SeqNext ==
    \/ nOps < MaxOps /\ Begin(1, SeqArgs) /\ UNCHANGED behavioral
    \/ Step(1) /\ UNCHANGED behavioral

SeqSpec == Init /\ [][SeqNext]_vars

\* ------------------------------------------------- a commit that fails

\* No commit has failed yet.
NoFault == [op |-> "commit", failed |-> FALSE, faults |-> 0]

\* A commit helper that hands the error of Commit to the mutation, which
\* returns it.
commitPropagating(p) ==
    /\ pc[p] = "commit_write"
    /\ \E fault \in {"store commit", "write HEAD"} :
          /\ objs' = objs
          /\ loc' = [loc EXCEPT ![p].res = fault]
          /\ Return(p, fault)
    /\ clock' = clock + 1
    /\ UNCHANGED <<refs, links, search, headFile, nOps, bindLog, commitLog, hist>>

\* Repository.commit when Commit returns an error: either store.Put fails in
\* its SafeWrite, which leaves no object, or the object is stored and the
\* SafeWrite of HEAD fails before its rename, which leaves HEAD as it was.
\* The error is printed as a warning and the mutation returns nil.
commitWarning(p) ==
    /\ pc[p] = "commit_write"
    /\ LET commit == CommitObject(loc[p].parent, clock, loc[p].refsMap, loc[p].allLinks,
                                  loc[p].message)
           data == CanonicalCommit(commit)
       IN  \E fault \in {"store commit", "write HEAD"} :
              /\ fault = "store commit" => ~ObjectStoreHas(objs, ComputeCID(data))
              /\ objs' = IF fault = "write HEAD" THEN ObjectStorePut(objs, data) ELSE objs
    /\ loc' = [loc EXCEPT ![p].res = "ok"]
    /\ clock' = clock + 1
    /\ Return(p, "ok")
    /\ UNCHANGED <<refs, links, search, headFile, nOps, bindLog, commitLog, hist>>

\* A mutation whose commit fails.
CommitFails ==
    /\ unit.op = "commit"
    /\ commitWarning(1)
    /\ unit' = [unit EXCEPT !.failed = TRUE, !.faults = @ + 1]
    /\ UNCHANGED <<indexVars, feedVars, pub>>

\* Sequential use in which any commit may fail.
FaultNext ==
    \/ nOps < MaxOps /\ Begin(1, SeqArgs) /\ UNCHANGED behavioral
    \/ Step(1) /\ unit' = [unit EXCEPT !.failed = FALSE] /\ UNCHANGED <<indexVars, feedVars, pub>>
    \/ CommitFails

FaultInit == InitProgram /\ unit = NoFault

FaultSpec == FaultInit /\ [][FaultNext]_vars

\* The access events of one run: at most this many.
MaxEvents == 4

\* The gaps between one access event and the next: inside the window, exactly
\* the window, and past it.
Gaps == {1, coAccessWindow, coAccessWindow + 1}

\* The access-log callback: Record(nodeID, ts) with the time of the read.
RecordCall ==
    /\ Len(accessed) < MaxEvents
    /\ \E nodeID \in IDs, gap \in Gaps :
        LET ts == coAccess.lastAccess + gap
        IN  /\ coAccess' = Record(coAccess, nodeID, ts)
            /\ accessed' = Append(accessed, [node |-> nodeID, ts |-> ts])
    /\ UNCHANGED <<repoVars, coChange, related, found, feedVars, sideVars>>

\* The co-access index alone: any sequence of access events.
CoAccessSpec == Init /\ [][RecordCall]_vars

\* The access log of the events recorded so far, one line for each, with a
\* malformed line put in before line k (none for k = 0).
AccessLogLines(k) ==
    LET lines == [i \in 1..Len(accessed) |-> LogLine(accessed[i].node, accessed[i].ts)]
    IN  IF k = 0 THEN lines
        ELSE SubSeq(lines, 1, k - 1) \o <<MalformedLine>> \o SubSeq(lines, k, Len(lines))

\* The repository is opened on the access log of the events so far:
\* NewCoAccessIndex replays it.
OpenCall ==
    /\ \E k \in 0..(Len(accessed) + 1) :
        unit' = [op |-> "NewCoAccessIndex", events |-> Len(accessed), torn |-> k,
                 idx |-> NewCoAccessIndex(AccessLogLines(k))]
    /\ UNCHANGED <<repoVars, indexVars, feedVars, pub>>

ReplayNext == RecordCall \/ OpenCall

\* Access events through Record, and the replay of their log.
ReplaySpec == Init /\ [][ReplayNext]_vars

\* The commits of one chain: at most this many.
MaxCommits == 3

\* The gaps between one commit and the next: inside the window, exactly the
\* window, and past it.
ChangeGaps == {1, coChangeWindow, coChangeWindow + 1}

\* No commit yet, and a co-change index never built: the chain, the calls of
\* Build, the commits the chain had at the last of them, and whether the
\* last call was a second one on the chain of the first.
NoChain == [op |-> "Build", chain |-> <<>>, builds |-> 0, built |-> 0, rebuilt |-> FALSE]

\* The refs a commit can have after a mutation on refs: one ID bound to a
\* new CID (here the number of the commit), one ID removed, or the same refs
\* (a link was made).
NextRefs(refsMap, n) ==
    {[id \in DOMAIN refsMap \cup {new} |-> IF id = new THEN n ELSE refsMap[id]] : new \in IDs}
    \cup {[id \in DOMAIN refsMap \ {old} |-> refsMap[id]] : old \in DOMAIN refsMap}
    \cup {refsMap}

\* A mutation commits: the chain, newest first, has one commit more.
CommitStep ==
    /\ unit.op = "Build"
    /\ Len(unit.chain) < MaxCommits
    /\ \E gap \in ChangeGaps :
        LET last == IF unit.chain = <<>> THEN [timestamp |-> ZeroTime, refs |-> EmptyFn]
                    ELSE Head(unit.chain)
        IN  \E refsMap \in NextRefs(last.refs, Len(unit.chain) + 1) :
                unit' = [unit EXCEPT
                            !.chain = <<[timestamp |-> last.timestamp + gap,
                                         refs |-> refsMap]>> \o unit.chain]
    /\ UNCHANGED <<repoVars, indexVars, feedVars, pub>>

\* coChange.Build(), at most twice on one index.
BuildCall ==
    /\ unit.op = "Build"
    /\ unit.builds < 2
    /\ \E pairs \in Build(coChange.pairs, unit.chain) :
        coChange' = [coChange EXCEPT !.pairs = pairs]
    /\ unit' = [unit EXCEPT !.builds = @ + 1, !.built = Len(unit.chain),
                            !.rebuilt = (unit.builds = 1 /\ unit.built = Len(unit.chain))]
    /\ UNCHANGED <<repoVars, coAccess, accessed, related, found, feedVars, pub>>

BuildNext == CommitStep \/ BuildCall

BuildInit == InitProgram /\ unit = NoChain

\* Commit chains, and the co-change index built from them.
BuildSpec == BuildInit /\ [][BuildNext]_vars

\* The two indexes are objects of their own: a run is of access events (at
\* most MaxPairEvents) and replays, or of commits and builds.
MaxPairEvents == 3
AccessRecord == unit.op # "Build" /\ Len(accessed) < MaxPairEvents /\ RecordCall
AccessReplay == unit.op # "Build" /\ OpenCall

PairsNext == AccessRecord \/ AccessReplay \/ CommitStep \/ BuildCall

PairsInit == InitProgram /\ unit \in {NoUnit, NoChain}

\* The co-access and the co-change index under replay, Record and Build.
PairsSpec == PairsInit /\ [][PairsNext]_vars

\* A fourth node, for the rankings.
ID_Z == <<"n", "2">>

\* The nodes the behavioral indexes have counted.
RelIDs == IDs \cup {ID_Z}

\* ------------------------------------------------- the ref store on its own

\* The IDs and the CIDs the ref store is given directly.
RefIDs == RelIDs

RefCIDs ==
    {ComputeCID(CanonicalJSON(n)) :
        n \in {ZeroEnvelope, NodeEnvelope(ID_N, T_NOTE, C_HI, M_NIL, 1, 1, EmptyText, FALSE)}}

\* What Get returns for every ID.
GetAll(dir) == [id \in RefIDs |-> RefGet(dir, id)]

\* No call of the ref store yet: `bound` maps the IDs that were Set and not
\* since Deleted to the CID of their last Set, `used` holds the IDs named in
\* a call, and `before` is what Get returned for every ID before the last call.
NoRefCall ==
    [op |-> "none", id |-> <<>>, err |-> FALSE, bound |-> EmptyFn, used |-> {},
     before |-> GetAll(EmptyFn)]

\* RefStore.Set(id, c), the whole call.
RefSet(dir, id, c) == RefSetWrite(RefSetTruncate(dir, id), id, c)

\* RefStore.Set(id, c) called directly.
RefSetCall ==
    \E id \in RefIDs, c \in RefCIDs :
        /\ refs' = RefSet(refs, id, c)
        /\ unit' = [op |-> "Set", id |-> id, err |-> FALSE,
                    bound |-> (id :> c) @@ unit.bound,
                    used |-> unit.used \cup {id}, before |-> GetAll(refs)]
        /\ UNCHANGED <<objs, links, search, headFile, clock, pc, loc, nOps, nSucc, bindLog,
                       commitLog, hist, indexVars, feedVars, pub>>

\* RefStore.Delete(id) called directly: os.Remove fails on a missing file.
RefDeleteCall ==
    \E id \in RefIDs :
        /\ refs' = RefDelete(refs, id)
        /\ unit' = [op |-> "Delete", id |-> id, err |-> ~RefHas(refs, id),
                    bound |-> [x \in DOMAIN unit.bound \ {id} |-> unit.bound[x]],
                    used |-> unit.used \cup {id}, before |-> GetAll(refs)]
        /\ UNCHANGED <<objs, links, search, headFile, clock, pc, loc, nOps, nSucc, bindLog,
                       commitLog, hist, indexVars, feedVars, pub>>

RefNext == RefSetCall \/ RefDeleteCall

RefInit == InitProgram /\ unit = NoRefCall

RefSpec == RefInit /\ [][RefNext]_vars

\* The highest pair count of the matrices Related is given.
MaxCount == 2

\* The limits Related is called with: no cap, and caps below, at and above
\* the number of peers.
Limits == 0..4

\* A pair matrix as flushSession and flushWindow build it, symmetric and with
\* no key of count 0, from sessions that each hold ID_N and one other node:
\* row[p] sessions with p.
StarPairs(row) ==
    LET keys == {k \in RelIDs \X RelIDs :
                    \/ k[1] = ID_N /\ k[2] # ID_N /\ row[k[2]] > 0
                    \/ k[2] = ID_N /\ k[1] # ID_N /\ row[k[1]] > 0}
    IN  [k \in keys |-> IF k[1] = ID_N THEN row[k[2]] ELSE row[k[1]]]

\* The repository opened on an access log and a commit chain that gave the
\* two indexes such matrices.
RelatedInit ==
    /\ InitRepo
    /\ accessed = <<>>
    /\ related = NoRelated
    /\ found = NoSearch
    /\ following = NoFollowing
    /\ fpc = [q \in FeedProcs |-> "idle"]
    /\ floc = [q \in FeedProcs |-> NoFeedCall]
    /\ syncer = NewFeedSyncer
    /\ feedLog = <<>>
    /\ pub = NewPublishing
    /\ unit = NoUnit
    /\ \E row \in [RelIDs \ {ID_N} -> 0..MaxCount] :
        coAccess = [EmptyCoAccess EXCEPT !.pairs = StarPairs(row)]
    /\ \E row \in [RelIDs \ {ID_N} -> 0..MaxCount] :
        coChange = [pairs |-> StarPairs(row)]

\* A read of the related directory of a node: Related(nodeID, limit).
RelatedCall ==
    /\ \E nodeID \in RelIDs, limit \in Limits :
        related' = [called |-> TRUE, nodeID |-> nodeID, limit |-> limit,
                    ids |-> Related(coAccess, coChange, nodeID, limit)]
    /\ UNCHANGED <<repoVars, coAccess, accessed, coChange, found, feedVars, sideVars>>

\* The relatedness ranking alone: any calls of Related on any such matrices.
RelatedSpec == RelatedInit /\ [][RelatedCall]_vars

\* Concurrent handlers. Handlers are interchangeable, so the second one is
\* only called while the first is busy.
Next ==
    \E p \in Procs :
        \/ nOps < MaxConcOps /\ (p = 1 \/ pc[1] # "idle") /\ Begin(p, ConcArgs)
              /\ UNCHANGED behavioral
        \/ Step(p) /\ UNCHANGED behavioral

Spec == Init /\ [][Next]_vars

\* The requests to the feed manager of one run: at most this many.
MaxFeedOps == 2

\* The ticks the syncer's ticker delivers in one run: at most this many.
MaxTicks == 1

\* The arguments of Follow and Unfollow.
\* An alias given to Follow.
ALIAS_AL == <<"a", "l">>

FollowDIDs == {DID_A, DID_B, NOT_A_DID}
FollowAliases == {<<>>, ALIAS_AL}
UnfollowArgs == {DID_A, ALIAS_AL, PetnameFromDID(DID_B)}

\* The CID of a post on IPFS.
CID_1 == <<"Q", "m", "Y", "w", "A", "P", "J", "z", "v", "5", "C", "Z", "s", "n", "A", "6", "2", "5">>

T_POST == <<"P", "o", "s", "t">>

\* FeedEntry, and the timestamp every post and feed entry carries.
TS_POST == <<"2", "0", "2", "6">>
FeedEntry(cid) == [cid |-> cid, timestamp |-> TS_POST]

\* What resolving, fetching and parsing the feed of a followed DID can give:
\* a failure, or the posts of the feed index.
FeedOutcomes ==
    {[failed |-> TRUE, posts |-> <<>>], [failed |-> FALSE, posts |-> <<>>],
     [failed |-> FALSE, posts |-> <<FeedEntry(CID_1)>>]}

\* Post, without its signature.
Post(author, content) ==
    [author |-> author, content |-> content, timestamp |-> TS_POST, refs |-> <<>>,
     tags |-> <<>>]

\* What Fetch of a post of the feed of did can give: an error, or a post and
\* whether its signature verifies; the post is by did or by somebody else.
FetchOutcomes(did) ==
    {[failed |-> TRUE, post |-> Post(<<>>, <<>>), verified |-> FALSE]} \cup
    {[failed |-> FALSE, post |-> Post(did, C_HI), verified |-> TRUE],
     [failed |-> FALSE, post |-> Post(did, C_HI), verified |-> FALSE],
     [failed |-> FALSE, post |-> Post(NOT_A_DID, C_HI), verified |-> TRUE]}

\* A node ID of the whole CID, however long.
PostNodeIDOfWholeCID(ipfsCID) == <<"p", "o", "s", "t", ":">> \o ipfsCID

\* IngestPost: "post:" and the first 16 characters of the CID.
PostNodeID(ipfsCID) ==
    <<"p", "o", "s", "t", ":">> \o
        (IF Len(ipfsCID) > 16 THEN SubSeq(ipfsCID, 1, 16) ELSE ipfsCID)

\* IngestPost: the metadata of the node.
PostMeta(post, ipfsCID) ==
    [ipfs_cid |-> [str |-> ipfsCID], author |-> [str |-> post.author],
     timestamp |-> [str |-> post.timestamp], verified |-> [bool |-> TRUE],
     refs |-> [list |-> post.refs], tags |-> [list |-> post.tags]]

\* The repository handler a caller of the feed manager runs CreateNode in.
Slot(q) == IF q = "user" THEN 1 ELSE 2

\* An event of the history.
Ev(e, q, x) == [ev |-> e, q |-> q, x |-> x]

\* The requests the filesystem has made to the feed manager.
UserCalls ==
    Cardinality({k \in 1..Len(feedLog) :
        feedLog[k].q = "user" /\ feedLog[k].ev \in {"follow", "unfollow", "refused"}})

\* Follow(did, alias) from the filesystem, as one of at most max requests.
\* fm.mu is held from the load to the save, so the call is one step.
FollowOp(max) ==
    /\ fpc["user"] = "idle"
    /\ UserCalls < max
    /\ \E did \in FollowDIDs, alias \in FollowAliases :
        LET r == Follow(following, did, alias, clock)
        IN  /\ following' = r.file
            /\ clock' = IF r.err = "" THEN clock + 1 ELSE clock
            /\ floc' = [floc EXCEPT !["user"] =
                            [NoFeedCall EXCEPT !.op = "Follow", !.did = did, !.alias = alias,
                                               !.res = IF r.err = "" THEN "ok" ELSE r.err]]
            /\ feedLog' = Append(feedLog,
                                 Ev(IF r.err = "" THEN "follow" ELSE "refused", "user", did))
    /\ UNCHANGED <<objs, refs, links, search, headFile, pc, loc, nOps, nSucc, bindLog,
                   commitLog, hist, indexVars, sideVars, fpc, syncer>>

FollowCall == FollowOp(MaxFeedOps)

\* Unfollow(didOrAlias) from the filesystem, one step under fm.mu, as one of
\* at most max requests.
UnfollowOp(max) ==
    /\ fpc["user"] = "idle"
    /\ UserCalls < max
    /\ \E x \in UnfollowArgs :
        LET r == Unfollow(following, x)
        IN  /\ following' = r.file
            /\ floc' = [floc EXCEPT !["user"] =
                            [NoFeedCall EXCEPT !.op = "Unfollow", !.did = x,
                                               !.res = IF r.err = "" THEN "ok" ELSE r.err]]
            /\ feedLog' = Append(feedLog,
                                 Ev(IF r.err = "" THEN "unfollow" ELSE "refused", "user", x))
    /\ UNCHANGED <<repoVars, indexVars, sideVars, fpc, syncer>>

UnfollowCall == UnfollowOp(MaxFeedOps)

\* CheckFeeds: the follow list is loaded under fm.mu and the lock released;
\* with nobody followed the call returns.
CheckFeedsLoad(q) ==
    /\ fpc[q] = "cf_load"
    /\ LET entries == loadFollowing(following)
       IN  /\ floc' = [floc EXCEPT ![q].entries = entries, ![q].i = 1,
                                   ![q].res = IF entries = <<>> THEN "not_following"
                                              ELSE floc[q].res]
           /\ fpc' = [fpc EXCEPT ![q] = IF entries = <<>> THEN "idle" ELSE "cf_resolve"]
    /\ feedLog' = Append(feedLog, Ev("load", q, <<>>))
    /\ UNCHANGED <<repoVars, indexVars, sideVars, following, syncer>>

\* CheckFeeds: the feed of the next entry is resolved, fetched and parsed; a
\* failure or an empty feed gives a summary line and leaves the entry as it is.
\* After the last entry the list is to be saved.
\* FeedOf(did) is what the feed of did can be at that time.
CheckFeedsResolveOf(q, FeedOf(_)) ==
    /\ fpc[q] = "cf_resolve"
    /\ IF floc[q].i > Len(floc[q].entries)
       THEN /\ fpc' = [fpc EXCEPT ![q] = "cf_save"]
            /\ floc' = floc
       ELSE \E feed \in FeedOf(floc[q].entries[floc[q].i].did) :
            IF feed.failed \/ feed.posts = <<>>
            THEN /\ floc' = [floc EXCEPT
                        ![q].lines = Append(@, IF feed.failed THEN "failed" ELSE "empty"),
                        ![q].i = @ + 1]
                 /\ fpc' = fpc
            ELSE /\ floc' = [floc EXCEPT ![q].posts = feed.posts, ![q].j = 1,
                                         ![q].ingested = 0]
                 /\ fpc' = [fpc EXCEPT ![q] = "cf_post"]
    /\ UNCHANGED <<repoVars, indexVars, sideVars, following, syncer, feedLog>>

\* The feed of a DID can be any of FeedOutcomes at any time.
AnyFeed(did) == FeedOutcomes

CheckFeedsResolve(q) == CheckFeedsResolveOf(q, AnyFeed)

\* The last-seen list of the newest post of the feed alone.
NewestOnly(posts) == <<posts[1].cid>>

\* The last-seen list CheckFeeds gives an entry: the CIDs of all the posts of
\* the feed.
LastSeenCids(posts) == [k \in 1..Len(posts) |-> posts[k].cid]

\* CheckFeeds without the comparison of the author with the followed DID.
PassedOverWhateverAuthor(known, f, did) == known \/ f.failed \/ ~f.verified

\* CheckFeeds passes over a post of the feed of did: its CID is in the entry's
\* last-seen list, Fetch failed, the post is by another author, or its
\* signature did not verify.
PassedOver(known, f, did) == known \/ f.failed \/ f.post.author # did \/ ~f.verified

\* What CheckFeeds had before it when it gave a post to IngestPost.
Seen(cid, known, f, did) ==
    [cid |-> cid, known |-> known, failed |-> f.failed, verified |-> f.verified,
     author |-> f.post.author, content |-> f.post.content, did |-> did]

\* CheckFeeds: the next post of the feed. A post whose CID is in the entry's
\* last-seen list, that cannot be fetched, is by another author or does not
\* verify is passed over; another is given to IngestPost, which returns when
\* its node ID has a ref and calls CreateNode otherwise. After the last post
\* the entry's last-seen list becomes the CIDs of the feed.
CheckFeedsPost(q) ==
    /\ fpc[q] = "cf_post"
    /\ LET l == floc[q]
           e == l.entries[l.i]
       IN  IF l.j > Len(l.posts)
           THEN /\ floc' = [floc EXCEPT
                       ![q].entries[l.i].lastSeenCids = LastSeenCids(l.posts),
                       ![q].lines = Append(@, IF l.ingested > 0 THEN "new" ELSE "up_to_date"),
                       ![q].i = @ + 1]
                /\ fpc' = [fpc EXCEPT ![q] = "cf_resolve"]
                /\ UNCHANGED <<pc, loc, nOps, feedLog>>
           ELSE LET cid == l.posts[l.j].cid
                    known == \E k \in 1..Len(e.lastSeenCids) : e.lastSeenCids[k] = cid
                IN  \E f \in FetchOutcomes(e.did) :
                    IF PassedOver(known, f, e.did)
                    THEN /\ floc' = [floc EXCEPT ![q].j = @ + 1]
                         /\ fpc' = fpc
                         /\ UNCHANGED <<pc, loc, nOps, feedLog>>
                    ELSE /\ feedLog' = Append(feedLog, Ev("ingest", q, Seen(cid, known, f, e.did)))
                         /\ IF RefHas(refs, PostNodeID(cid))
                            THEN /\ floc' = [floc EXCEPT ![q].j = @ + 1, ![q].ingested = @ + 1]
                                 /\ fpc' = fpc
                                 /\ UNCHANGED <<pc, loc, nOps>>
                            ELSE /\ pc[Slot(q)] = "idle"
                                 /\ pc' = [pc EXCEPT ![Slot(q)] = "put"]
                                 /\ loc' = [loc EXCEPT ![Slot(q)] =
                                        [Call("CreateNode", PostNodeID(cid)) EXCEPT
                                            !.typ = T_POST, !.content = f.post.content,
                                            !.meta = PostMeta(f.post, cid)]]
                                 /\ nOps' = nOps + 1
                                 /\ floc' = floc
                                 /\ fpc' = [fpc EXCEPT ![q] = "cf_ingest"]
    /\ UNCHANGED <<objs, refs, links, search, headFile, clock, nSucc, bindLog, commitLog,
                   hist, indexVars, sideVars, following, syncer>>

\* The steps of the CreateNode that IngestPost called.
CreateNodeStep(p) ==
    /\ \/ PutAndOpenRef(p)
       \/ WriteRef(p)
       \/ Index(p)
       \/ CommitList(p)
       \/ CommitGet(p)
       \/ CommitLinks(p)
       \/ CommitHead(p)
       \/ CommitWrite(p)
    /\ UNCHANGED behavioral

\* CheckFeeds: IngestPost has returned.
CheckFeedsIngested(q) ==
    /\ fpc[q] = "cf_ingest"
    /\ pc[Slot(q)] = "idle"
    /\ floc' = [floc EXCEPT ![q].j = @ + 1, ![q].ingested = @ + 1]
    /\ fpc' = [fpc EXCEPT ![q] = "cf_post"]
    /\ UNCHANGED <<repoVars, indexVars, sideVars, following, syncer, feedLog>>

\* CheckFeeds: the entries loaded at the start, with their new last-seen
\* lists, are saved under fm.mu, and the call returns its summary.
CheckFeedsSave(q) ==
    /\ fpc[q] = "cf_save"
    /\ following' = saveFollowing(floc[q].entries)
    /\ floc' = [floc EXCEPT ![q].res = "ok"]
    /\ fpc' = [fpc EXCEPT ![q] = "idle"]
    /\ feedLog' = Append(feedLog, Ev("save", q, <<>>))
    /\ UNCHANGED <<repoVars, indexVars, sideVars, syncer>>

\* FeedSyncer.Start: the polling goroutine is launched.
SyncerStart ==
    /\ syncer.g = "none"
    /\ syncer' = [syncer EXCEPT !.g = "select"]
    /\ feedLog' = Append(feedLog, Ev("start", "syncer", <<>>))
    /\ UNCHANGED <<repoVars, indexVars, sideVars, following, fpc, floc>>

\* The ticker delivers a tick into its channel of capacity one (a tick that
\* finds the channel full is dropped). The goroutine stops the ticker when
\* it exits.
TickerFire ==
    /\ syncer.g \in {"select", "check"}
    /\ ~syncer.tick
    /\ syncer.fired < MaxTicks
    /\ syncer' = [syncer EXCEPT !.tick = TRUE, !.fired = @ + 1]
    /\ UNCHANGED <<repoVars, indexVars, sideVars, following, fpc, floc, feedLog>>

\* The goroutine's select takes the case of the closed stopCh: it returns,
\* which closes doneCh.
SelectStop ==
    /\ syncer.g = "select"
    /\ syncer.stopCh = "closed"
    /\ syncer' = [syncer EXCEPT !.g = "exited", !.doneCh = "closed"]
    /\ feedLog' = Append(feedLog, Ev("exit", "syncer", <<>>))
    /\ UNCHANGED <<repoVars, indexVars, sideVars, following, fpc, floc>>

\* The goroutine's select takes the case of the tick (select chooses among the
\* ready cases at random): with IPFS unavailable it goes back to the select,
\* otherwise it calls CheckFeeds.
SelectTick ==
    /\ syncer.g = "select"
    /\ syncer.tick
    /\ \E available \in BOOLEAN :
        IF available
        THEN /\ syncer' = [syncer EXCEPT !.tick = FALSE, !.g = "check"]
             /\ fpc' = [fpc EXCEPT !["syncer"] = "cf_load"]
             /\ floc' = [floc EXCEPT !["syncer"] = [NoFeedCall EXCEPT !.op = "CheckFeeds"]]
             /\ feedLog' = Append(feedLog, Ev("tick", "syncer", <<>>))
        ELSE /\ syncer' = [syncer EXCEPT !.tick = FALSE]
             /\ UNCHANGED <<fpc, floc, feedLog>>
    /\ UNCHANGED <<repoVars, indexVars, sideVars, following>>

\* The tick's CheckFeeds has returned: the goroutine logs the summary and
\* goes back to the select.
TickDone ==
    /\ syncer.g = "check"
    /\ fpc["syncer"] = "idle"
    /\ syncer' = [syncer EXCEPT !.g = "select"]
    /\ UNCHANGED <<repoVars, indexVars, sideVars, following, fpc, floc, feedLog>>

\* FeedSyncer.Stop on a started syncer: stopCh is closed, and the caller
\* waits to receive from doneCh.
StopCall ==
    /\ syncer.g # "none"
    /\ syncer.stop = "none"
    /\ syncer' = [syncer EXCEPT !.stopCh = "closed", !.stop = "waiting"]
    /\ feedLog' = Append(feedLog, Ev("stop", "main", <<>>))
    /\ UNCHANGED <<repoVars, indexVars, sideVars, following, fpc, floc>>

\* Stop receives from the closed doneCh and returns.
StopReturn ==
    /\ syncer.stop = "waiting"
    /\ syncer.doneCh = "closed"
    /\ syncer' = [syncer EXCEPT !.stop = "returned"]
    /\ feedLog' = Append(feedLog, Ev("return", "main", <<>>))
    /\ UNCHANGED <<repoVars, indexVars, sideVars, following, fpc, floc>>

\* The feed manager with its syncer: Follow and Unfollow from the filesystem
\* beside the syncer's ticks, and a Stop at any time after Start.
FeedNext ==
    \/ FollowCall
    \/ UnfollowCall
    \/ CheckFeedsLoad("syncer")
    \/ CheckFeedsResolve("syncer")
    \/ CheckFeedsPost("syncer")
    \/ CheckFeedsIngested("syncer")
    \/ CheckFeedsSave("syncer")
    \/ CreateNodeStep(Slot("syncer"))
    \/ SyncerStart
    \/ TickerFire
    \/ SelectStop
    \/ SelectTick
    \/ TickDone
    \/ StopCall
    \/ StopReturn

FeedSpec == Init /\ [][FeedNext]_vars

\* The requests to the follow list of one run, with no syncer: at most this
\* many.
MaxFollowOps == 3

\* Follow and Unfollow from the filesystem, one after another.
FollowNext ==
    \/ FollowOp(MaxFollowOps)
    \/ UnfollowOp(MaxFollowOps)

FollowSpec == Init /\ [][FollowNext]_vars

\* The CheckFeeds calls of the filesystem in one run: at most this many.
MaxChecks == 2

\* Opening feeds/sync calls CheckFeeds.
CheckFeedsCall ==
    /\ fpc["user"] = "idle"
    /\ Cardinality({k \in 1..Len(feedLog) : feedLog[k].ev = "check"}) < MaxChecks
    /\ fpc' = [fpc EXCEPT !["user"] = "cf_load"]
    /\ floc' = [floc EXCEPT !["user"] = [NoFeedCall EXCEPT !.op = "CheckFeeds"]]
    /\ feedLog' = Append(feedLog, Ev("check", "user", <<>>))
    /\ UNCHANGED <<repoVars, indexVars, sideVars, following, syncer>>

\* The filesystem alone at the feed manager, one request after another:
\* Follow, Unfollow and CheckFeeds.
CheckNext ==
    \/ FollowOp(MaxFeedOps)
    \/ UnfollowOp(MaxFeedOps)
    \/ CheckFeedsCall
    \/ CheckFeedsLoad("user")
    \/ CheckFeedsResolve("user")
    \/ CheckFeedsPost("user")
    \/ CheckFeedsIngested("user")
    \/ CheckFeedsSave("user")
    \/ CreateNodeStep(Slot("user"))

CheckSpec == Init /\ [][CheckNext]_vars

\* A second CID.
CID_2 == <<"Q", "m", "T", "9", "q", "k", "3", "C", "R", "Y", "b", "F", "D", "W", "p", "D", "F", "e">>

\* What the feed of a followed DID is on the network: it does not resolve, it
\* is empty, or it lists one or two posts, the newest first.
NetFeeds ==
    {[failed |-> TRUE, posts |-> <<>>], [failed |-> FALSE, posts |-> <<>>],
     [failed |-> FALSE, posts |-> <<FeedEntry(CID_1)>>],
     [failed |-> FALSE, posts |-> <<FeedEntry(CID_2), FeedEntry(CID_1)>>]}

\* The feeds of the two DIDs on the network, and the changes made to them.
SyncInit ==
    /\ InitProgram
    /\ \E feedA \in {[failed |-> TRUE, posts |-> <<>>],
                     [failed |-> FALSE, posts |-> <<FeedEntry(CID_2), FeedEntry(CID_1)>>]},
          feedB \in {[failed |-> FALSE, posts |-> <<FeedEntry(CID_1)>>],
                     [failed |-> FALSE, posts |-> <<FeedEntry(CID_2), FeedEntry(CID_1)>>]} :
        unit = [op |-> "CheckFeeds", changes |-> 0,
                feeds |-> [did \in {DID_A, DID_B} |-> IF did = DID_A THEN feedA ELSE feedB]]

\* The feed of did as the network has it.
NetFeed(did) == {unit.feeds[did]}

\* The feed of a DID changes on the network, once, between two requests.
FeedChanges ==
    /\ unit.op = "CheckFeeds" /\ unit.changes < 1
    /\ fpc["user"] = "idle"
    /\ \E did \in {DID_A, DID_B}, feed \in NetFeeds :
        /\ feed # unit.feeds[did]
        /\ unit' = [unit EXCEPT !.feeds[did] = feed, !.changes = @ + 1]
    /\ UNCHANGED <<repoVars, indexVars, feedVars, pub>>

SyncResolve == unit.op = "CheckFeeds" /\ CheckFeedsResolveOf("user", NetFeed)

\* Follow and CheckFeeds from the filesystem, one request after another, on
\* feeds that stay as they are during a request.
SyncNext ==
    \/ FollowOp(MaxFeedOps)
    \/ FeedChanges
    \/ CheckFeedsCall
    \/ CheckFeedsLoad("user")
    \/ SyncResolve
    \/ CheckFeedsPost("user")
    \/ CheckFeedsIngested("user")
    \/ CheckFeedsSave("user")
    \/ CreateNodeStep(Slot("user"))

SyncSpec == SyncInit /\ [][SyncNext]_vars

\* The PublishPost calls of one run: at most this many.
MaxPublishes == 5

\* The CID IPFS gives to the n-th post added.
PublishedCID(n) == <<"Q", "m", "P", DigitChars[n + 1]>>

\* The posts added to IPFS so far.
Added == Cardinality({k \in 1..Len(feedLog) : feedLog[k].ev = "added"})

\* PublishPost(content, refs, tags): Publish signs the post, adds and pins it.
\* When that fails the call returns the error; otherwise IngestPost mirrors
\* the post as a node, unless its node ID has a ref.
PublishPostCall ==
    /\ fpc["user"] = "idle"
    /\ Cardinality({k \in 1..Len(feedLog) : feedLog[k].ev \in {"added", "add_failed"}})
           < MaxPublishes
    /\ \E ok \in BOOLEAN :
        LET cid == PublishedCID(Added + 1)
            call == [NoFeedCall EXCEPT !.op = "PublishPost"]
        IN  IF ~ok
            THEN /\ floc' = [floc EXCEPT !["user"] = [call EXCEPT !.res = "error"]]
                 /\ feedLog' = Append(feedLog, Ev("add_failed", "user", <<>>))
                 /\ UNCHANGED <<fpc, pc, loc, nOps>>
            ELSE /\ floc' = [floc EXCEPT !["user"] = [call EXCEPT !.cid = cid]]
                 /\ feedLog' = Append(feedLog, Ev("added", "user", cid))
                 /\ IF RefHas(refs, PostNodeID(cid))
                    THEN /\ fpc' = [fpc EXCEPT !["user"] = "pp_index"]
                         /\ UNCHANGED <<pc, loc, nOps>>
                    ELSE /\ pc[Slot("user")] = "idle"
                         /\ pc' = [pc EXCEPT ![Slot("user")] = "put"]
                         /\ loc' = [loc EXCEPT ![Slot("user")] =
                                [Call("CreateNode", PostNodeID(cid)) EXCEPT
                                    !.typ = T_POST, !.content = C_HI,
                                    !.meta = PostMeta(Post(OwnDID, C_HI), cid)]]
                         /\ nOps' = nOps + 1
                         /\ fpc' = [fpc EXCEPT !["user"] = "pp_ingest"]
    /\ UNCHANGED <<objs, refs, links, search, headFile, clock, nSucc, bindLog, commitLog,
                   hist, indexVars, sideVars, following, syncer>>

\* PublishPost: IngestPost has returned.
PublishIngested ==
    /\ fpc["user"] = "pp_ingest"
    /\ pc[Slot("user")] = "idle"
    /\ fpc' = [fpc EXCEPT !["user"] = "pp_index"]
    /\ UNCHANGED <<repoVars, indexVars, sideVars, following, floc, syncer, feedLog>>

\* PublishPost: the feed index is updated under fm.mu, and the call returns
\* the CID.
PublishIndexed ==
    /\ fpc["user"] = "pp_index"
    /\ pub' = [pub EXCEPT !.feedFile = UpdateFeedIndex(@, OwnDID, floc["user"].cid, clock)]
    /\ clock' = clock + 1
    /\ floc' = [floc EXCEPT !["user"].res = "ok"]
    /\ fpc' = [fpc EXCEPT !["user"] = "idle"]
    /\ feedLog' = Append(feedLog, Ev("publish", "user", floc["user"].cid))
    /\ UNCHANGED <<objs, refs, links, search, headFile, pc, loc, nOps, nSucc, bindLog,
                   commitLog, hist, indexVars, following, syncer>>

\* PublishPost's last step where IPFS and the IPNS name are not looked at.
PublishIndex == PublishIndexed /\ UNCHANGED unit

\* The filesystem publishing posts, one after another.
PublishNext ==
    \/ PublishPostCall
    \/ PublishIngested
    \/ PublishIndex
    \/ CreateNodeStep(Slot("user"))

PublishSpec == Init /\ [][PublishNext]_vars

\* ------------------------------------------- the background IPNS publishes

\* The PublishPost calls of one run with background publishes: at most this many.
MaxBackground == 3

\* Kubo and the goroutines PublishPost has started: `jobs` holds, for each
\* goroutine, the feed index it was given and where it is ("add", "publish",
\* "done" or "failed"); `name` is what the IPNS name of the key points at.
NoKubo == [op |-> "ipns", jobs |-> <<>>, name |-> [set |-> FALSE, data |-> <<>>]]

\* kubo.Add(data): the CID is the content's.
KuboAdd(data) == [set |-> TRUE, data |-> data]

\* PublishPost is called.
BackgroundPublishPost ==
    /\ unit.op = "ipns"
    /\ Cardinality({k \in 1..Len(feedLog) : feedLog[k].ev \in {"added", "add_failed"}})
           < MaxBackground
    /\ PublishPostCall

\* PublishPost's last step: the index is saved, `go func()` starts the
\* goroutine with the index in memory, and the call returns the CID.
PublishAndGo ==
    /\ unit.op = "ipns"
    /\ PublishIndexed
    /\ unit' = [unit EXCEPT !.jobs =
            Append(@, [at |-> "add", post |-> floc["user"].cid,
                       data |-> UpdateFeedIndex(pub.feedFile, OwnDID, floc["user"].cid,
                                                clock).data])]

\* A goroutine: feedCID, err := fm.kubo.Add(data); an error is logged and the
\* goroutine ends.
BackgroundAdd ==
    /\ unit.op = "ipns"
    /\ \E k \in 1..Len(unit.jobs), ok \in BOOLEAN :
          /\ unit.jobs[k].at = "add"
          /\ unit' = [unit EXCEPT !.jobs[k].at = IF ok THEN "publish" ELSE "failed"]
    /\ UNCHANGED <<repoVars, indexVars, feedVars, pub>>

\* A goroutine: fm.kubo.NamePublish(feedCID, keyName); Kubo points the name at
\* the CID of the request it serves, and an error is logged.
BackgroundNamePublish ==
    /\ unit.op = "ipns"
    /\ \E k \in 1..Len(unit.jobs), ok \in BOOLEAN :
          /\ unit.jobs[k].at = "publish"
          /\ unit' = [unit EXCEPT !.jobs[k].at = IF ok THEN "done" ELSE "failed",
                                  !.name = IF ok THEN KuboAdd(unit.jobs[k].data) ELSE @]
    /\ UNCHANGED <<repoVars, indexVars, feedVars, pub>>

BackgroundNext ==
    \/ BackgroundPublishPost
    \/ PublishIngested
    \/ PublishAndGo
    \/ CreateNodeStep(Slot("user"))
    \/ BackgroundAdd
    \/ BackgroundNamePublish

BackgroundInit == InitProgram /\ unit = NoKubo

BackgroundSpec == BackgroundInit /\ [][BackgroundNext]_vars

\* The SafeWrite calls of one run: at most this many.
MaxWrites == 3

\* The file SafeWrite is asked to write, and what it is asked to write there.
TargetPath == "following.json"
WriteData == {<<1, 2, 3>>, <<4, 5>>}

\* The name os.CreateTemp(dir, ".tmp-*") makes for the n-th call: one the
\* directory does not have.
TempName(n) == <<".tmp-1", ".tmp-2", ".tmp-3", ".tmp-4", ".tmp-5">>[n]

\* A removal that leaves the file where it is.
KeepFile(dir, name) == dir

\* os.Remove(name)
RemoveFile(dir, name) == [f \in DOMAIN dir \ {name} |-> dir[f]]

\* os.Rename(old, new): the entry new points at the file of old, and the
\* entry old is gone, in one step.
Rename(dir, old, new) ==
    [f \in (DOMAIN dir \ {old}) \cup {new} |-> IF f = new THEN dir[old] ELSE dir[f]]

\* A directory before any SafeWrite.
SafeWriteIdle ==
    [op |-> "SafeWrite", dir |-> EmptyFn, pc |-> "idle", path |-> "", data |-> <<>>,
     tmp |-> "", before |-> EmptyFn, calls |-> 0, res |-> "none", partial |-> FALSE]

\* Every variable but the operation exercised on its own.
notUnit == <<repoVars, indexVars, feedVars, pub>>

\* SafeWrite returns an error after the temporary file was created: the file
\* is closed, and the deferred function removes it.
SafeWriteFail(u) ==
    [u EXCEPT !.dir = RemoveFile(u.dir, u.tmp), !.pc = "idle", !.res = "error",
              !.partial = Len(u.dir[u.tmp]) \in 1..(Len(u.data) - 1)]

\* SafeWrite(path, data, perm): os.CreateTemp in the directory of path, which
\* fails or makes an empty file.
SafeWriteCreateTemp ==
    /\ unit.pc = "idle"
    /\ unit.calls < MaxWrites
    /\ \E data \in WriteData, ok \in BOOLEAN :
        LET u == [unit EXCEPT !.path = TargetPath, !.data = data, !.before = unit.dir,
                              !.calls = @ + 1, !.partial = FALSE]
        IN  unit' = IF ok THEN [u EXCEPT !.tmp = TempName(u.calls),
                                         !.dir = (TempName(u.calls) :> <<>>) @@ unit.dir,
                                         !.pc = "write", !.res = "none"]
                    ELSE [u EXCEPT !.tmp = "", !.res = "error"]
    /\ UNCHANGED notUnit

\* f.Write(data): the bytes reach the temporary file one after another, and
\* the write can fail before any of them.
SafeWriteWrite ==
    /\ unit.pc = "write"
    /\ \E ok \in BOOLEAN :
        LET have == unit.dir[unit.tmp]
            more == Append(have, unit.data[Len(have) + 1])
        IN  unit' = IF ok THEN [unit EXCEPT !.dir[unit.tmp] = more,
                                            !.pc = IF more = unit.data THEN "sync" ELSE "write"]
                    ELSE SafeWriteFail(unit)
    /\ UNCHANGED notUnit

\* f.Sync()
SafeWriteSync ==
    /\ unit.pc = "sync"
    /\ \E ok \in BOOLEAN : unit' = IF ok THEN [unit EXCEPT !.pc = "chmod"] ELSE SafeWriteFail(unit)
    /\ UNCHANGED notUnit

\* f.Chmod(perm)
SafeWriteChmod ==
    /\ unit.pc = "chmod"
    /\ \E ok \in BOOLEAN : unit' = IF ok THEN [unit EXCEPT !.pc = "close"] ELSE SafeWriteFail(unit)
    /\ UNCHANGED notUnit

\* f.Close()
SafeWriteClose ==
    /\ unit.pc = "close"
    /\ \E ok \in BOOLEAN : unit' = IF ok THEN [unit EXCEPT !.pc = "rename"] ELSE SafeWriteFail(unit)
    /\ UNCHANGED notUnit

\* os.Rename(tmp, path), and the return.
SafeWriteRename ==
    /\ unit.pc = "rename"
    /\ \E ok \in BOOLEAN :
        unit' = IF ok THEN [unit EXCEPT !.dir = Rename(unit.dir, unit.tmp, unit.path),
                                        !.pc = "idle", !.res = "ok"]
                ELSE SafeWriteFail(unit)
    /\ UNCHANGED notUnit

\* SafeWrite calls on one path, one after another, each step of which can fail.
SafeWriteNext ==
    \/ SafeWriteCreateTemp
    \/ SafeWriteWrite
    \/ SafeWriteSync
    \/ SafeWriteChmod
    \/ SafeWriteClose
    \/ SafeWriteRename

\* No SafeWrite is in progress.
SafeWriteInit == InitProgram /\ unit = SafeWriteIdle

SafeWriteSpec == SafeWriteInit /\ [][SafeWriteNext]_vars

\* The keys and the values of the maps given to CanonicalJSON: the keys of the
\* outer map, of the inner maps, and the values of the inner maps.
OuterKeys == {<<"z">>, <<"m">>, <<"m", "a">>}
InnerValues ==
    {GoInt(<<"7">>), GoString(<<"x">>), GoSlice(<<GoInt(<<"1">>), GoString(<<"y">>)>>)}

\* The maps with the keys "a" and "b", inserted in either order.
InnerMaps ==
    UNION {{GoMap(<<<<<<"a">>, va>>, <<<<"b">>, vb>>>>), GoMap(<<<<<<"b">>, vb>>, <<<<"a">>, va>>>>)} :
              va \in InnerValues, vb \in {GoInt(<<"7">>)}}

\* The maps of two outer keys, one value an inner map and one an int or a
\* string.
EncodeInputs ==
    LET keys == {ks \in OuterKeys \X OuterKeys : ks[1] # ks[2]}
        plain == {GoInt(<<"7">>), GoString(<<"x">>)}
    IN  {GoMap(<<<<ks[1], v1>>, <<ks[2], v2>>>>) : ks \in keys, v1 \in InnerMaps, v2 \in plain}
        \cup {GoMap(<<<<ks[2], v2>>, <<ks[1], v1>>>>) : ks \in keys, v1 \in InnerMaps, v2 \in plain}

RECURSIVE AsValue(_)
\* The key/value pairs a Go value holds, whatever the order of insertion.
AsValue(v) ==
    CASE v.k = "map" ->
            [k |-> "map", s |-> <<>>, items |-> <<>>,
             m |-> [key \in {v.items[i][1] : i \in 1..Len(v.items)} |->
                       LET last == CHOOSE i \in 1..Len(v.items) :
                                       /\ v.items[i][1] = key
                                       /\ \A j \in (i + 1)..Len(v.items) : v.items[j][1] # key
                       IN  AsValue(v.items[last][2])]]
      [] v.k = "slice" ->
            [k |-> "slice", s |-> <<>>, items |-> [i \in 1..Len(v.items) |-> AsValue(v.items[i])],
             m |-> EmptyFn]
      [] OTHER -> v

\* Two maps to serialize, holding the same pairs.
EncodeInit ==
    /\ InitProgram
    /\ \E a \in EncodeInputs, b \in EncodeInputs :
        /\ AsValue(a) = AsValue(b)
        /\ unit = [op |-> "CanonicalJSON", a |-> a, b |-> b, done |-> FALSE,
                   outA |-> <<>>, again |-> <<>>, outB |-> <<>>]

\* CanonicalJSON(a), CanonicalJSON(a) once more, and CanonicalJSON(b).
CanonicalJSONCall ==
    /\ unit.op = "CanonicalJSON"
    /\ ~unit.done
    /\ \E x \in CanonicalJSONBytes(unit.a), y \in CanonicalJSONBytes(unit.a),
          z \in CanonicalJSONBytes(unit.b) :
        unit' = [unit EXCEPT !.done = TRUE, !.outA = x, !.again = y, !.outB = z]
    /\ UNCHANGED notUnit

EncodeSpec == EncodeInit /\ [][CanonicalJSONCall]_vars

\* Ed25519 public keys: 32 bytes, here from a first byte, a last byte and a
\* fixed run between them, the keys of all zero and all 255 among them.
KeyEnds == {0, 1, 57, 58, 128, 237, 255}
KeyOf(first, last) ==
    <<first>> \o [i \in 1..30 |-> IF first = last THEN first ELSE (i * 37 + first) % 256]
    \o <<last>>
PublicKeys == {KeyOf(a, b) : a \in KeyEnds, b \in KeyEnds}

\* Strings that are no encodeDIDKey of a key: of another method, without the
\* "z", with no digits, with a character outside the alphabet, and the
\* encodings of byte strings that are not 0xED 0x01 and 32 bytes.
OtherDIDs ==
    LET key == KeyOf(1, 58)
    IN  {<<>>,
         <<"d", "i", "d", ":", "w", "e", "b", ":", "z", "A">>,
         <<"d", "i", "d", ":", "k", "e", "y", ":">> \o Base58btc(ed25519Multicodec \o key),
         DidKeyPrefix,
         DidKeyPrefix \o <<"1">>,
         DidKeyPrefix \o <<"A", "0", "B">>,
         DidKeyPrefix \o <<"A", "l", "B">>,
         DidKeyPrefix \o <<"A", " ", "B">>,
         encodeDIDKey(key) \o <<"O">>,
         encodeDIDKey(key) \o <<"1">>,
         DidKeyPrefix \o <<"1">> \o Base58btc(ed25519Multicodec \o key),
         DidKeyPrefix \o Base58btc(<<236, 1>> \o key),
         DidKeyPrefix \o Base58btc(<<237, 2>> \o key),
         DidKeyPrefix \o Base58btc(<<1>> \o key),
         DidKeyPrefix \o Base58btc(key),
         DidKeyPrefix \o Base58btc(ed25519Multicodec \o SubSeq(key, 1, 31)),
         DidKeyPrefix \o Base58btc(ed25519Multicodec \o SubSeq(key, 1, 1)),
         DidKeyPrefix \o Base58btc(ed25519Multicodec),
         DidKeyPrefix \o Base58btc(ed25519Multicodec \o key \o <<0>>),
         DidKeyPrefix \o Base58btc(ed25519Multicodec \o key \o <<7, 7>>)}

\* A key to encode and decode, or a string to decode.
DIDKeyInit ==
    /\ InitProgram
    /\ \/ \E key \in PublicKeys :
            unit = [op |-> "encodeDIDKey", key |-> key, did |-> <<>>, done |-> FALSE,
                    err |-> FALSE, out |-> <<>>]
       \/ \E did \in OtherDIDs :
            unit = [op |-> "DecodeDIDKey", key |-> <<>>, did |-> did, done |-> FALSE,
                    err |-> FALSE, out |-> <<>>]

\* did := encodeDIDKey(key)
encodeDIDKeyCall ==
    /\ unit.op = "encodeDIDKey"
    /\ unit' = [unit EXCEPT !.op = "DecodeDIDKey", !.did = encodeDIDKey(unit.key)]
    /\ UNCHANGED notUnit

\* out, err := DecodeDIDKey(did)
DecodeDIDKeyCall ==
    /\ unit.op = "DecodeDIDKey"
    /\ ~unit.done
    /\ LET r == DecodeDIDKey(unit.did)
       IN  unit' = [unit EXCEPT !.done = TRUE, !.err = r.err, !.out = r.key]
    /\ UNCHANGED notUnit

DIDKeyNext == encodeDIDKeyCall \/ DecodeDIDKeyCall

DIDKeySpec == DIDKeyInit /\ [][DIDKeyNext]_vars

\* The values of the fields of a post to sign, and the values a field is
\* changed to after signing.
VersionTexts == {<<"2">>, <<"3">>, TwoTo53, TwoTo53Plus1}
TypeTexts == {<<"p", "o", "s", "t">>, <<"r", "e", "p", "l", "y">>}
ContentTexts == {<<"h", "i">>, <<"h", "o">>}
RefLists == {<<>>, <<CID_1>>, <<CID_1, CID_1>>}
TagLists == {<<>>, <<<<"g", "o">>>>, <<<<"g">>, <<"o">>>>}
TimestampTexts == {TS_POST, <<"2", "0", "2", "4", "Z">>}
SignerKeys == {KeyOf(1, 58), KeyOf(0, 255)}

\* DIDs an author field can be changed to: of another key, the author's own
\* with a "1" before the digits, a DID of 33 key bytes, and one that does
\* not decode.
AuthorTexts ==
    {encodeDIDKey(key) : key \in SignerKeys}
    \cup {DidKeyPrefix \o <<"1">> \o Base58btc(ed25519Multicodec \o key) : key \in SignerKeys}
    \cup {DidKeyPrefix \o Base58btc(ed25519Multicodec \o KeyOf(1, 58) \o <<0>>), NOT_A_DID}

\* The posts to sign, each with a key pair whose DID is the author.
SignInit ==
    /\ InitProgram
    /\ \E public \in SignerKeys, v \in {<<"2">>, TwoTo53}, refList \in {<<>>, <<CID_1>>},
          tagList \in {<<>>, <<<<"g", "o">>>>} :
        LET post == UnsignedPost(v, <<"p", "o", "s", "t">>, C_HI, encodeDIDKey(public), refList,
                                 tagList, TS_POST)
        IN  unit = [op |-> "SignPost", key |-> PrivateKey(public), signed |-> post,
                    post |-> post, changed |-> "", done |-> FALSE,
                    ok |-> FALSE, err |-> FALSE, panic |-> FALSE]

\* signed, _ := SignPost(post, key)
SignPostCall ==
    /\ unit.op = "SignPost"
    /\ \E signed \in SignPost(unit.post, unit.key) :
        unit' = [unit EXCEPT !.op = "VerifyPost", !.signed = signed, !.post = signed]
    /\ UNCHANGED notUnit

\* One field of the signed post is given another value.
ChangeTo(field, values) ==
    /\ unit.op = "VerifyPost" /\ ~unit.done /\ unit.changed = ""
    /\ \E value \in values \ {unit.post[field]} :
        unit' = [unit EXCEPT !.post = [unit.post EXCEPT ![field] = value], !.changed = field]
    /\ UNCHANGED notUnit

ChangeField ==
    \/ ChangeTo("v", VersionTexts)
    \/ ChangeTo("type", TypeTexts)
    \/ ChangeTo("content", ContentTexts)
    \/ ChangeTo("author", AuthorTexts)
    \/ ChangeTo("refs", RefLists)
    \/ ChangeTo("tags", TagLists)
    \/ ChangeTo("timestamp", TimestampTexts)

\* The signature is emptied, of a signed post or of one never signed.
ClearSignature ==
    /\ unit.op \in {"SignPost", "VerifyPost"} /\ ~unit.done /\ unit.changed = ""
    /\ unit' = [unit EXCEPT !.op = "VerifyPost", !.changed = "signature",
                            !.post = [unit.post EXCEPT !.signature = EmptySignature]]
    /\ UNCHANGED notUnit

\* ok, err := VerifyPost(post)
VerifyPostCall ==
    /\ unit.op = "VerifyPost" /\ ~unit.done
    /\ \E r \in VerifyPost(unit.post) :
        unit' = [unit EXCEPT !.done = TRUE, !.ok = r.ok, !.err = r.err, !.panic = r.panic]
    /\ UNCHANGED notUnit

SignNext == SignPostCall \/ ChangeField \/ ClearSignature \/ VerifyPostCall

SignSpec == SignInit /\ [][SignNext]_vars


\* ------------------------------------------------------------------ claims

\* C1: from a fresh repository, after N successful mutations made one after
\* another, Log(N) returns exactly N commits, newest first: commit i is the
\* i-th newest commit written, the parent of commit i is the CID of commit
\* i+1, the oldest commit has an empty parent, and HEAD is the CID of the
\* newest commit.
C1_LogIsTheChain ==
    pc[1] = "idle" =>
        LET log == Log(objs, headFile, nSucc)
        IN  /\ Len(log) = nSucc
            /\ Len(commitLog) = nSucc
            /\ \A i \in 1..nSucc :
                   /\ log[i] = GetCommit(objs, commitLog[nSucc + 1 - i]).commit
                   /\ log[i].parent = IF i < nSucc THEN CIDToFilename(commitLog[nSucc - i])
                                      ELSE EmptyText
            /\ nSucc > 0 => HeadOf(headFile) = commitLog[nSucc]

\* Three mutations succeeded, a soft delete last, and Log(3) has three commits.
C1_Witness ==
    /\ pc[1] = "idle"
    /\ nSucc = 3
    /\ loc[1].op = "DeleteNode" /\ ~loc[1].force /\ loc[1].res = "ok"
    /\ Len(Log(objs, headFile, 3)) = 3

RECURSIVE ChainFrom(_, _, _)
\* The CIDs Log's walk visits from `current`: at most n, following parent.
ChainFrom(store, current, n) ==
    IF n <= 0 \/ current = Undef THEN {}
    ELSE LET g == GetCommit(store, current)
         IN  IF ~g.ok THEN {}
             ELSE IF g.commit.parent = EmptyText \/ ~DecodeCID(g.commit.parent).ok
                  THEN {current}
             ELSE {current} \cup ChainFrom(store, DecodeCID(g.commit.parent).cid, n - 1)

\* C2: the commits of concurrent mutations, whose commit steps may interleave,
\* are all on the parent chain that starts at HEAD, and HEAD is the commit
\* written last.
C2_CommitsOnChain ==
    /\ \A i \in 1..Len(commitLog) :
           commitLog[i] \in ChainFrom(objs, HeadOf(headFile), Len(commitLog))
    /\ commitLog # <<>> => HeadOf(headFile) = commitLog[Len(commitLog)]

\* The operations that replace the envelope of a bound ID.
Updates == {"UpdateNode", "UpdateContent", "DeleteNode"}

\* The envelope stored under a textual CID.
EnvelopeAt(store, text) == UnmarshalNode(ObjectStoreGet(store, DecodeCID(text).cid).data)

\* C3: mutations of one ID (UpdateNode, UpdateContent, soft DeleteNode), also
\* concurrent ones, take effect one after the other: of two that bind the ID
\* in succession, the envelope of the second has prev equal to the CID the
\* first bound, so no update is lost.
C3_UpdatesSerialize ==
    \A i \in 1..(Len(bindLog) - 1) :
        LET a == bindLog[i]
            b == bindLog[i + 1]
        IN  (a.file = b.file /\ a.bound /\ b.bound /\ a.op \in Updates /\ b.op \in Updates)
                => EnvelopeAt(objs, b.text).prev = a.text

\* Two updates of one ID have both bound it, each with a different envelope
\* whose prev is the same older CID: the second has replaced the first.
C3_LostUpdate ==
    /\ pc[1] = "unindex" /\ pc[2] = "unindex"
    /\ loc[1].op = "UpdateNode" /\ loc[2].op = "UpdateContent"
    /\ loc[1].id = loc[2].id
    /\ loc[1].prev = loc[2].prev /\ loc[1].prev # EmptyText
    /\ loc[1].cid # loc[2].cid
    /\ RefGet(refs, loc[1].id).cid = loc[1].cid

\* The part of a ref mapping that Refs.Get reads: the IDs whose file holds a CID.
Readable(view) == [id \in {i \in DOMAIN view : DecodeCID(view[i]).ok} |-> view[id]]

\* The links of a commit, as a set.
LinkSet(commit) == {commit.links[i] : i \in 1..Len(commit.links)}

\* C4: the (refs, links) pair of every commit is the ref mapping and the link
\* set that existed together at one instant, whatever Set, Delete and Add
\* calls ran during the commit.
C4_CommitIsSnapshot ==
    \A i \in 1..Len(commitLog) :
        LET commit == GetCommit(objs, commitLog[i]).commit
        IN  \E h \in hist : /\ Readable(h.refs) = commit.refs
                            /\ h.links = LinkSet(commit)

\* No Refs.Delete has removed the ref file of id.
NeverUnbound(id) ==
    \A i \in 1..Len(bindLog) : bindLog[i].file = refFilename(id) => bindLog[i].bound

\* C5: a Refs.Get of an ID that is bound to a CID, running while Refs.Set
\* binds the ID again, returns the old or the new CID: a GetNode of an ID that
\* held a CID when it was called, and that nothing unbinds, never fails on
\* reading the ref.
C5_GetSeesOldOrNew ==
    \A p \in Procs :
        (/\ pc[p] = "idle"
         /\ loc[p].op = "GetNode"
         /\ DecodeCID(loc[p].refBefore).ok
         /\ NeverUnbound(loc[p].id))
            => loc[p].res \notin {"decode", "not_found"}

\* The last entry of the history of ref writes made by a call on id, as a set
\* (empty when there is none).
LastBindOf(id) ==
    LET ks == {k \in 1..Len(bindLog) : bindLog[k].id = id}
    IN  {bindLog[k] : k \in {j \in ks : \A i \in ks : i <= j}}

\* C6: a GetNode(id) whose last preceding mutation of id is a successful
\* CreateNode(id, type, content, meta) returns an envelope with that ID, type,
\* content and metadata, whatever was done to other IDs in between.
C6_CreateThenGet ==
    (pc[1] = "idle" /\ loc[1].op = "GetNode") =>
        \A b \in LastBindOf(loc[1].id) :
            b.op = "CreateNode" =>
                /\ loc[1].res = "ok"
                /\ loc[1].cur.id = loc[1].id
                /\ loc[1].cur.type = b.typ
                /\ loc[1].cur.content = b.content
                /\ loc[1].cur.meta = b.meta

\* Every object holds the bytes of one of the envelopes Put was given, under
\* the name of the CID of those bytes, and the object of the last Put reads
\* back as the bytes given.
StoreHoldsWhatWasPut ==
    /\ \A f \in DOMAIN objs :
           \E n \in StoreEnvelopes :
               /\ f = CIDToFilename(ComputeCID(CanonicalJSON(n)))
               /\ objs[f] = CanonicalJSON(n)
    /\ loc[1].op = "Put" =>
           /\ loc[1].cid = ComputeCID(CanonicalJSON(loc[1].node))
           /\ ObjectStoreGet(objs, loc[1].cid) = [ok |-> TRUE, data |-> CanonicalJSON(loc[1].node)]

\* A step keeps every object with its bytes, and a Put of bytes already
\* stored changes nothing.
StoreNeverRewrites ==
    /\ \A f \in DOMAIN objs : f \in DOMAIN objs' /\ objs'[f] = objs[f]
    /\ (loc'[1].op = "Put" /\ loc'[1].boundBefore) => objs' = objs

\* C7: for any bytes b, Put(b) returns the CID computed from b alone and Get
\* of that CID returns exactly b, also after any later Put calls: a Put of
\* bytes already stored is a no-op, and no step changes the bytes stored under
\* an existing CID.
C7_PutThenGet == [](StoreHoldsWhatWasPut) /\ [][StoreNeverRewrites]_vars

\* Bytes already stored are Put again, after Puts of three other objects.
C7_Witness ==
    /\ loc[1].op = "Put" /\ loc[1].boundBefore
    /\ Cardinality(DOMAIN objs) >= 4
    /\ ObjectStoreGet(objs, loc[1].cid).data = CanonicalJSON(loc[1].node)

\* C8: in sequential use, after a successful UpdateNode, UpdateContent or soft
\* DeleteNode of an ID, the envelope now bound has prev equal to the text the
\* ref held just before the call, and the created time and the type of the
\* envelope it replaced.
C8_UpdateKeepsHistory ==
    (/\ pc[1] = "idle"
     /\ loc[1].op \in Updates /\ ~loc[1].force
     /\ loc[1].res = "ok")
        => LET new == GetNodeEnvelope(refs, objs, loc[1].id)
               old == EnvelopeAt(objs, loc[1].refBefore)
           IN  /\ new.err = ""
               /\ new.node = loc[1].node
               /\ new.node.prev = loc[1].refBefore
               /\ new.node.prev # EmptyText
               /\ new.node.created = old.created
               /\ new.node.type = old.type

\* An UpdateNode has succeeded on an ID that UpdateContent had updated before.
C8_Witness ==
    /\ pc[1] = "idle"
    /\ loc[1].op = "UpdateNode" /\ loc[1].res = "ok"
    /\ EnvelopeAt(objs, loc[1].refBefore).prev # EmptyText
    /\ loc[1].node.created < loc[1].node.modified

\* C9: after a successful DeleteNode(id, force=false) on a live node,
\* GetNode(id) fails, Refs.Has(id) is still true, and the envelope the ref
\* names, read from the object store, has deleted = true.
C9_SoftDeleteHides ==
    (/\ pc[1] = "idle"
     /\ loc[1].op = "DeleteNode" /\ ~loc[1].force
     /\ loc[1].res = "ok"
     /\ ~loc[1].cur.deleted)
        => /\ GetNode(refs, objs, loc[1].id).err # ""
           /\ RefHas(refs, loc[1].id)
           /\ ObjectStoreGet(objs, RefGet(refs, loc[1].id).cid).ok
           /\ UnmarshalNode(ObjectStoreGet(objs, RefGet(refs, loc[1].id).cid).data).deleted

\* A soft delete of a live node that had content has succeeded.
C9_Witness ==
    /\ pc[1] = "idle"
    /\ loc[1].op = "DeleteNode" /\ ~loc[1].force /\ loc[1].res = "ok"
    /\ ~loc[1].cur.deleted /\ loc[1].cur.content # <<>>
    /\ GetNode(refs, objs, loc[1].id).err = "deleted"

\* The IDs the calls can name.
AllIDs == IDs \cup {IngestID(c) : c \in IngestContents}

\* A step unbinds an ID only inside DeleteNode(id, true) of that ID, and when
\* such a call returns success the ID is not bound.
OnlyHardDeleteUnbinds ==
    \A id \in AllIDs :
        /\ (RefHas(refs, id) /\ ~RefHas(refs', id))
               => \E p \in Procs : /\ loc[p].op = "DeleteNode" /\ loc[p].force
                                   /\ loc[p].id = id
        /\ \A p \in Procs :
               (/\ pc[p] # "idle" /\ pc'[p] = "idle"
                /\ loc'[p].op = "DeleteNode" /\ loc'[p].force
                /\ loc'[p].id = id /\ loc'[p].res = "ok")
                   => ~RefHas(refs', id)

\* C10: an ID that is bound stays bound (Refs.Has(id)) through every
\* CreateNode, UpdateNode, UpdateContent, soft DeleteNode, CreateLink and
\* Ingest on any ID; only DeleteNode(id, force=true) unbinds it, and after
\* that call Refs.Has(id) is false.
C10_BoundUntilHardDelete == [][OnlyHardDeleteUnbinds]_vars

\* The call of handler p is an UpdateNode or UpdateContent, not yet started,
\* of an ID that is unbound or whose current envelope is a tombstone.
UpdateOfDeadID(p) ==
    /\ pc[p] = "load"
    /\ loc[p].op \in {"UpdateNode", "UpdateContent"}
    /\ \/ ~RefHas(refs, loc[p].id)
       \/ /\ GetNodeEnvelope(refs, objs, loc[p].id).err = ""
          /\ GetNodeEnvelope(refs, objs, loc[p].id).node.deleted

\* C11: UpdateNode and UpdateContent on an ID that is unbound or whose current
\* envelope is a tombstone return an error, and the ref bindings, the stored
\* objects, the search index and HEAD stay as they were.
C11_UpdateOfDeadIDFails ==
    [][UpdateOfDeadID(1) =>
          /\ pc'[1] = "idle"
          /\ loc'[1].res \in {"not_found", "deleted"}
          /\ nSucc' = nSucc
          /\ UNCHANGED <<refs, objs, search, headFile>>]_vars

\* UpdateContent on a tombstone has returned its error, after a create and a
\* soft delete.
C11_Witness ==
    /\ pc[1] = "idle"
    /\ loc[1].op = "UpdateContent" /\ loc[1].res = "deleted"
    /\ RefHas(refs, loc[1].id)
    /\ nSucc = 2

\* How often x is in the sequence seq.
Count(seq, x) == Cardinality({i \in 1..Len(seq) : seq[i] = x})

\* An Ingest that has returned: the ID is "sha256:" and the hex digest of the
\* content, created tells whether the ID was unbound at the call, and
\* ListNodes has the ID once.
IngestResult ==
    (pc[1] = "idle" /\ loc[1].op = "Ingest" /\ loc[1].res = "ok") =>
        /\ loc[1].id = <<"s", "h", "a", "2", "5", "6", ":">> \o HexSha256(loc[1].content)
        /\ loc[1].created = ~loc[1].boundBefore
        /\ Count(ListNodes(refs, objs, 0), loc[1].id) = 1

\* The step of an Ingest whose ID is bound returns created = false and writes
\* no object, no ref and no commit.
IngestOfBoundID ==
    (pc[1] = "ingest_has" /\ RefHas(refs, loc[1].id)) =>
        /\ pc'[1] = "idle" /\ loc'[1].res = "ok" /\ ~loc'[1].created
        /\ UNCHANGED <<objs, refs, headFile, bindLog>>

\* C12: the first Ingest(c, format), on a repository where the ID is unbound,
\* returns ("sha256:" + hex SHA-256 of c, created = true); every later Ingest
\* of the same content returns the same ID with created = false, writes no
\* envelope and does not rebind the ref; ListNodes lists the ID exactly once.
C12_IngestDedup == [](IngestResult) /\ [][IngestOfBoundID]_vars

\* A second Ingest of the same content has returned created = false.
C12_Witness ==
    /\ pc[1] = "idle"
    /\ loc[1].op = "Ingest" /\ loc[1].res = "ok" /\ ~loc[1].created
    /\ Len(bindLog) = 1 /\ bindLog[1].op = "Ingest"
    /\ Count(ListNodes(refs, objs, 0), loc[1].id) = 1

\* C13: UpdateNode(id, patch) yields the previous metadata with every patch
\* key whose value is null removed, every other patch key set to its patch
\* value and every key the patch does not name left as it was; content, type
\* and created are unchanged.
C13_MetaMerge ==
    (pc[1] = "idle" /\ loc[1].op = "UpdateNode" /\ loc[1].res = "ok") =>
        LET new == GetNodeEnvelope(refs, objs, loc[1].id).node
            old == EnvelopeAt(objs, loc[1].refBefore)
            patch == loc[1].meta
        IN  /\ \A k \in DOMAIN old.meta \cup DOMAIN patch \cup DOMAIN new.meta :
                   IF k \in DOMAIN patch
                   THEN IF patch[k] = Null THEN k \notin DOMAIN new.meta
                        ELSE k \in DOMAIN new.meta /\ new.meta[k] = patch[k]
                   ELSE IF k \in DOMAIN old.meta
                        THEN k \in DOMAIN new.meta /\ new.meta[k] = old.meta[k]
                        ELSE k \notin DOMAIN new.meta
            /\ new.content = old.content
            /\ new.type = old.type
            /\ new.created = old.created

\* An UpdateNode has set one key and left another, which its patch does not
\* name, as it was; the UpdateNode before it had removed a key with a null.
C13_Witness ==
    /\ pc[1] = "idle" /\ loc[1].op = "UpdateNode" /\ loc[1].res = "ok"
    /\ LET old == EnvelopeAt(objs, loc[1].refBefore)
           new == GetNodeEnvelope(refs, objs, loc[1].id).node
       IN  /\ \E k \in DOMAIN loc[1].meta : loc[1].meta[k] # Null
           /\ \E k \in DOMAIN old.meta :
                  k \notin DOMAIN loc[1].meta /\ k \in DOMAIN new.meta
           /\ old.prev # EmptyText
           /\ \E k \in DOMAIN EnvelopeAt(objs, old.prev).meta : k \notin DOMAIN old.meta

\* Every triple is at most once in the forward bucket of its source, in the
\* reverse bucket of its target and in the journal, and it is in the one
\* bucket exactly when it is in the other.
LinkIndexIsASet ==
    \A e \in LinkTriples :
        /\ Count(Bucket(links.forward, e.source), e) <= 1
        /\ Count(Bucket(links.reverse, e.target), e) <= 1
        /\ Count(links.journal, e) <= 1
        /\ Count(Bucket(links.forward, e.source), e) = Count(Bucket(links.reverse, e.target), e)
        /\ Count(links.journal, e) = Count(Bucket(links.forward, e.source), e)

\* An Add of a triple that is in the journal changes nothing, and any other
\* Add puts the triple in.
AddOfPresentIsNoOp ==
    IF Count(links.journal, loc'[1].link) > 0
    THEN links' = links
    ELSE Count(links'.journal, loc'[1].link) = 1

\* C14: after any sequence of LinkIndex.Add calls, repeats included, each
\* (source, target, type) triple is at most once in the forward bucket of its
\* source, in the reverse bucket of its target and in the journal; an Add of a
\* triple already present changes none of them; a triple is in
\* forward[source] exactly when it is in reverse[target].
C14_LinkAddIdempotent == [](LinkIndexIsASet) /\ [][AddOfPresentIsNoOp]_vars

\* A triple has been added again after three others: the buckets of its
\* source and of its target hold two triples each.
C14_Witness ==
    /\ loc[1].op = "Add"
    /\ Count(links.journal, loc[1].link) = 1
    /\ Len(links.journal) = 4
    /\ links.journal[1] = loc[1].link
    /\ Len(Bucket(links.forward, loc[1].link.source)) = 2
    /\ Len(Bucket(links.reverse, loc[1].link.target)) = 2

\* The events that open a run: the first one, and every one whose gap from the
\* event before it exceeds the window.
RunStarts ==
    {i \in 1..Len(accessed) :
        i = 1 \/ accessed[i].ts - accessed[i - 1].ts > coAccessWindow}

\* The events of the run that event s opens: up to the next opening event.
RunEvents(s) ==
    {i \in s..Len(accessed) : \A j \in (s + 1)..i : j \notin RunStarts}

\* The IDs accessed in the run that event s opens.
RunIDs(s) == {accessed[i].node : i \in RunEvents(s)}

\* The runs a later event has closed.
ClosedRuns == {s \in RunStarts : \E t \in RunStarts : t > s}

Peers(nodeID) ==
    {p \in RelIDs : PairCount(coAccess.pairs, nodeID, p) # 0
                        \/ PairCount(coChange.pairs, nodeID, p) # 0}

\* 1 x co-access + 2 x co-change of nodeID and p.
Score(nodeID, p) ==
    PairCount(coAccess.pairs, nodeID, p) + 2 * PairCount(coChange.pairs, nodeID, p)

\* p comes before q in the ranking of nodeID's peers.
Outranks(nodeID, p, q) ==
    \/ Score(nodeID, p) > Score(nodeID, q)
    \/ Score(nodeID, p) = Score(nodeID, q) /\ StrLess(p, q)

\* C16: Related(id, limit) returns the peers of id with a non-zero co-access
\* or co-change count, each once and never id itself, by descending
\* 1 x co-access + 2 x co-change and, at equal score, ascending ID: all of them
\* when limit is 0, the first limit of that ranking when limit > 0.
C16_RelatedRanking ==
    related.called =>
        LET r == related.ids
            n == related.nodeID
            returned == {r[i] : i \in 1..Len(r)}
        IN  /\ returned \subseteq Peers(n)
            /\ n \notin returned
            /\ \A i \in 1..Len(r), j \in 1..Len(r) : i < j => Outranks(n, r[i], r[j])
            /\ \A p \in Peers(n) \ returned : \A q \in returned : Outranks(n, q, p)
            /\ Len(r) = IF related.limit > 0 /\ Cardinality(Peers(n)) > related.limit
                        THEN related.limit ELSE Cardinality(Peers(n))

\* C16 happens: three peers and limit 2; the first of the two returned has the
\* higher score with no more co-occurrences and the higher ID (the weight
\* ranked it), and the peer cut off ties with the second and has the higher ID.
C16_Witness ==
    /\ related.called
    /\ related.limit = 2
    /\ Len(related.ids) = 2
    /\ LET n == related.nodeID
           a == related.ids[1]
           b == related.ids[2]
       IN  /\ Score(n, a) > Score(n, b)
           /\ PairCount(coAccess.pairs, n, a) + PairCount(coChange.pairs, n, a)
                = PairCount(coAccess.pairs, n, b) + PairCount(coChange.pairs, n, b)
           /\ StrLess(b, a)
           /\ \E c \in Peers(n) \ {a, b} : Score(n, c) = Score(n, b) /\ StrLess(b, c)

\* The IDs filed under at least one term of the query, and how many each.
Matched(query) ==
    [id \in {i \in IDs : \E t \in tokenize(query) :
                t \in DOMAIN found.index.index /\ i \in found.index.index[t]} |->
        Cardinality({t \in tokenize(query) :
                t \in DOMAIN found.index.index /\ id \in found.index.index[t]})]

\* What Search returned is a ranking of the matches: only IDs matching a query
\* term, each once, by descending number of distinct terms matched, all of them
\* or, with limit > 0, no more than limit and none outranked by one left out.
SearchResultIsARanking ==
    found.called =>
        LET r == found.ids
            m == Matched(found.query)
            returned == {r[i] : i \in 1..Len(r)}
        IN  /\ returned \subseteq DOMAIN m
            /\ Cardinality(returned) = Len(r)
            /\ \A i \in 1..(Len(r) - 1) : m[r[i]] >= m[r[i + 1]]
            /\ \A p \in DOMAIN m \ returned : \A q \in returned : m[q] >= m[p]
            /\ Len(r) = IF found.limit > 0 /\ Cardinality(DOMAIN m) > found.limit
                        THEN found.limit ELSE Cardinality(DOMAIN m)

\* A call of Search with the query and limit of the call before it, the index
\* being as that call found it, returns the list that call returned.
SameQuerySameList ==
    (/\ found.called
     /\ found' # found
     /\ found'.query = found.query
     /\ found'.limit = found.limit
     /\ found'.index = found.index)
        => found'.ids = found.ids

\* C17: Search(query, limit) returns the indexed IDs matching at least one
\* query token by descending number of distinct query tokens matched, the
\* first limit of them when limit > 0, and ties come in an order that two calls
\* with the same query and limit on an unchanged index repeat.
C17_SearchRepeats == [](SearchResultIsARanking) /\ [][SameQuerySameList]_vars

\* C17's case: two IDs match the query equally, and a call with limit 1 has
\* returned one of them.
C17_Witness ==
    /\ found.called
    /\ found.limit = 1
    /\ found.index = search
    /\ \E a \in DOMAIN Matched(found.query), b \in DOMAIN Matched(found.query) :
        /\ a # b
        /\ Matched(found.query)[a] = Matched(found.query)[b]
        /\ found.ids = <<a>>

\* The IDs Search returns on index s for some query: every term of the index
\* is a query.
SearchReturns(s) ==
    UNION {{r[i] : i \in 1..Len(r)} : r \in UNION {Search(s, t, 0) : t \in DOMAIN s.index}}

\* The IDs FilterByType returns on index s for some type.
FilterReturns(s) ==
    UNION {{FilterByType(s, typ, 0)[i] : i \in 1..Len(FilterByType(s, typ, 0))} :
            typ \in DOMAIN s.types}

\* The IDs ListNodes returns.
ListReturns == {ListNodes(refs, objs, 0)[i] : i \in 1..Len(ListNodes(refs, objs, 0))}

\* The ID has no ref, or the envelope its ref names is a tombstone.
Gone(id) ==
    \/ ~RefHas(refs, id)
    \/ GetNodeEnvelope(refs, objs, id).err = "" /\ GetNodeEnvelope(refs, objs, id).node.deleted

\* C18: between calls, on the index the mutations kept and on the index
\* OpenRepository would rebuild from the refs, Search, FilterByType and
\* ListNodes return no ID whose current envelope is a tombstone or whose ref
\* is removed, and the ID a soft delete has just tombstoned still has its ref.
C18_NoDeadIDReturned ==
    pc[1] = "idle" =>
        /\ \A id \in SearchReturns(search) \cup FilterReturns(search) \cup ListReturns :
              ~Gone(id)
        /\ \A id \in SearchReturns(rebuildSearchIndex(refs, objs))
                        \cup FilterReturns(rebuildSearchIndex(refs, objs)) : ~Gone(id)
        /\ (loc[1].op = "DeleteNode" /\ ~loc[1].force /\ loc[1].res = "ok")
              => RefHas(refs, loc[1].id)

\* C18's case: a soft delete of an indexed node has returned; the ID is bound
\* to a tombstone and none of the three queries returns it.
C18_Witness ==
    /\ pc[1] = "idle"
    /\ loc[1].op = "DeleteNode" /\ ~loc[1].force /\ loc[1].res = "ok"
    /\ RefHas(refs, loc[1].id)
    /\ GetNodeEnvelope(refs, objs, loc[1].id).node.deleted
    /\ search # EmptySearch
    /\ loc[1].id \notin SearchReturns(search) \cup FilterReturns(search) \cup ListReturns

\* No CheckFeeds call of the syncer begins after Stop has closed stopCh.
NoTickAfterStop ==
    \A i \in 1..Len(feedLog), j \in 1..Len(feedLog) :
        (i < j /\ feedLog[i].ev = "stop") => feedLog[j].ev # "tick"

\* The goroutine has not exited out of a CheckFeeds call.
TickRunsToCompletion ==
    syncer.g = "exited" => (fpc["syncer"] = "idle" /\ pc[Slot("syncer")] = "idle")

\* Stop has not returned before the goroutine exited.
StopAwaitsExit == syncer.stop = "returned" => syncer.g = "exited"

\* C19: once Stop is called on a started syncer no further CheckFeeds call
\* begins, a tick in progress runs to completion, and Stop returns only after
\* the polling goroutine has exited.
C19_StopEndsTicks == NoTickAfterStop /\ TickRunsToCompletion /\ StopAwaitsExit

\* C19's case: Stop was called while a tick's CheckFeeds was between its load
\* and its save, and has returned.
C19_Witness ==
    /\ syncer.stop = "returned"
    /\ \E i \in 1..Len(feedLog), j \in 1..Len(feedLog), k \in 1..Len(feedLog) :
        /\ i < j /\ j < k
        /\ feedLog[i].ev = "load"
        /\ feedLog[j].ev = "stop"
        /\ feedLog[k].ev = "save"

\* The last Follow or Unfollow that succeeded between the load and the save of
\* the CheckFeeds call that has just saved: 0 when there is none.
LastDuringCheck ==
    LET n == Len(feedLog)
        loads == {k \in 1..n : feedLog[k].ev = "load" /\ feedLog[k].q = feedLog[n].q}
        ld == CHOOSE k \in loads : \A m \in loads : m <= k
        during == {k \in (ld + 1)..(n - 1) : feedLog[k].ev \in {"follow", "unfollow"}}
    IN  IF n = 0 \/ feedLog[n].ev # "save" \/ during = {} THEN 0
        ELSE CHOOSE k \in during : \A m \in during : m <= k

\* C20: the feed manager's operations act as if one mutex serialized them: when
\* a CheckFeeds call finishes, the persisted follow list reflects the last
\* Follow or Unfollow that succeeded while it was in progress (the followed DID
\* is in the list, the unfollowed DID or alias is not).
C20_FollowSurvivesCheckFeeds ==
    LastDuringCheck # 0 =>
        LET e == feedLog[LastDuringCheck]
            entries == loadFollowing(following)
        IN  IF e.ev = "follow"
            THEN \E i \in 1..Len(entries) : entries[i].did = e.x
            ELSE \A i \in 1..Len(entries) : entries[i].did # e.x /\ entries[i].alias # e.x

\* C20's case: a CheckFeeds call has just saved, and a Follow or an Unfollow
\* succeeded after its load.
C20_Witness == LastDuringCheck # 0

\* The DIDs of a follow list.
FollowedDIDs(entries) == {entries[i].did : i \in 1..Len(entries)}

\* A follow list holds no DID twice.
NoDIDTwice(entries) ==
    \A i, j \in 1..Len(entries) : entries[i].did = entries[j].did => i = j

\* The persisted follow list never holds two entries with the same DID.
FollowListHasNoDuplicate == NoDIDTwice(loadFollowing(following))

\* The step is a request of the filesystem to the feed manager, the call op.
UserRequest(op) ==
    /\ Len(feedLog') = Len(feedLog) + 1
    /\ feedLog'[Len(feedLog')].q = "user"
    /\ floc'["user"].op = op

\* A step that is a Follow call: it fails and leaves following.json as it was
\* when the DID lacks the prefix or is in the list, and otherwise the list
\* after is the list before with one more entry at its end, under the alias
\* given (the petname of the DID for the empty alias) and with no last-seen
\* CID.
FollowContract ==
    UserRequest("Follow") =>
        LET l == floc'["user"]
            before == loadFollowing(following)
            after == loadFollowing(following')
        IN  IF ~HasPrefix(l.did, DidKeyPrefix) \/ l.did \in FollowedDIDs(before)
            THEN l.res # "ok" /\ following' = following
            ELSE /\ l.res = "ok"
                 /\ Len(after) = Len(before) + 1
                 /\ SubSeq(after, 1, Len(before)) = before
                 /\ after[Len(after)].did = l.did
                 /\ after[Len(after)].alias =
                        (IF l.alias = <<>> THEN PetnameFromDID(l.did) ELSE l.alias)
                 /\ after[Len(after)].lastSeenCids = <<>>

\* C21: Follow(did, alias) fails and leaves the follow list unchanged when did
\* lacks the did:key:z prefix or is already followed; otherwise it appends
\* exactly one entry with the given alias (or the petname of did when alias is
\* empty) and an empty last-seen list, so the follow list never holds two
\* entries with the same DID.
C21_FollowContract == [](FollowListHasNoDuplicate) /\ [][FollowContract]_vars

\* C21's cases have all happened in one run: a Follow without the prefix and
\* a Follow of a followed DID were refused, and a Follow with the empty alias
\* put the petname in the list.
C21_Witness ==
    /\ \E k \in 1..Len(feedLog) : feedLog[k].ev = "refused" /\ feedLog[k].x = NOT_A_DID
    /\ floc["user"].op = "Follow" /\ floc["user"].res = "already"
    /\ \E i \in 1..Len(loadFollowing(following)) :
           loadFollowing(following)[i].alias = PetnameFromDID(loadFollowing(following)[i].did)

\* The entries of a follow list that x names, by DID or by alias.
NamedBy(entries, x) ==
    {i \in 1..Len(entries) : entries[i].did = x \/ entries[i].alias = x}

\* A step that is an Unfollow call removes one entry that its argument names
\* and keeps the others in their order, or fails and leaves following.json as
\* it was when the argument names no entry.
UnfollowRemovesOne ==
    UserRequest("Unfollow") =>
        LET l == floc'["user"]
            before == loadFollowing(following)
            after == loadFollowing(following')
        IN  IF NamedBy(before, l.did) = {}
            THEN l.res # "ok" /\ following' = following
            ELSE /\ l.res = "ok"
                 /\ \E i \in NamedBy(before, l.did) :
                        after = SubSeq(before, 1, i - 1) \o SubSeq(before, i + 1, Len(before))

\* After a step that is a successful Unfollow call its argument names no entry.
UnfollowLeavesNoMatch ==
    (UserRequest("Unfollow") /\ floc'["user"].res = "ok") =>
        NamedBy(loadFollowing(following'), floc'["user"].did) = {}

\* C22: Unfollow(x) removes the entry whose DID or alias equals x and leaves
\* every other entry unchanged and in the same order, so that afterwards no
\* entry has DID or alias x; when no entry matches, it returns an error and
\* leaves the follow list unchanged.
C22_UnfollowContract == [][UnfollowRemovesOne /\ UnfollowLeavesNoMatch]_vars

\* C22's case: an Unfollow has succeeded, and an Unfollow of a name that no
\* entry has was refused before it.
C22_Witness ==
    /\ floc["user"].op = "Unfollow" /\ floc["user"].res = "ok"
    /\ \E k \in 1..Len(feedLog) : feedLog[k].ev = "refused" /\ feedLog[k].x \in UnfollowArgs

\* The removal alone, without what the claim concludes from it.
C22_RemovesOneEntry == [][UnfollowRemovesOne]_vars

\* The posts CheckFeeds has given to IngestPost.
Ingests == {k \in 1..Len(feedLog) : feedLog[k].ev = "ingest"}

\* Every post given to IngestPost was fetched, by the followed DID, verified,
\* and not in the last-seen list of the entry.
IngestedPostsPass ==
    \A k \in Ingests :
        LET x == feedLog[k].x
        IN  ~x.known /\ ~x.failed /\ x.verified /\ x.author = x.did

\* A Post node, bound or in the making, is of a post given to IngestPost.
PostNodesWereIngested ==
    /\ RefHas(refs, PostNodeID(CID_1)) => \E k \in Ingests : feedLog[k].x.cid = CID_1
    /\ \A p \in Procs :
           (pc[p] # "idle" /\ loc[p].typ = T_POST) => \E k \in Ingests : feedLog[k].x.cid = CID_1

\* A step that gives a post to IngestPost: the persisted entry of the followed
\* DID does not have the post's CID in its last-seen list.
IngestIsOfUnseenCID ==
    (Len(feedLog') = Len(feedLog) + 1 /\ feedLog'[Len(feedLog')].ev = "ingest") =>
        LET x == feedLog'[Len(feedLog')].x
            entries == loadFollowing(following)
        IN  \A i \in 1..Len(entries) :
                entries[i].did = x.did =>
                    \A j \in 1..Len(entries[i].lastSeenCids) : entries[i].lastSeenCids[j] # x.cid

\* C23: CheckFeeds ingests a feed entry as a Post node only if the entry's CID
\* is not in that follow's last-seen list, the fetched post's signature
\* verifies under its author DID, and its author equals the followed DID; a
\* post failing any of these conditions never becomes a node.
C23_IngestOnlyVerifiedNewPosts ==
    [](IngestedPostsPass /\ PostNodesWereIngested) /\ [][IngestIsOfUnseenCID]_vars

\* C23's case: a post of a followed feed has become a Post node, and a second
\* CheckFeeds, with the CID in the last-seen list, has given nothing to
\* IngestPost.
C23_Witness ==
    /\ RefHas(refs, PostNodeID(CID_1))
    /\ Cardinality(Ingests) = 1
    /\ Cardinality({k \in 1..Len(feedLog) : feedLog[k].ev = "save"}) = 2
    /\ \E i \in 1..Len(loadFollowing(following)) :
           loadFollowing(following)[i].lastSeenCids = <<CID_1>>

\* "post:" and the first 16 characters of a CID of 16 characters or more.
ShortPostID(cid) == <<"p", "o", "s", "t", ":">> \o SubSeq(cid, 1, 16)

\* The calls of IngestPost with the CID cid, oldest first.
IngestsOf(cid) == {k \in Ingests : feedLog[k].x.cid = cid}

\* Once the IngestPost calls made with a CID have returned, its node ID is
\* bound to a Post node with the content, the author and the whole CID of the
\* first of them; the ID was bound once, and ListNodes has it once.
OnePostNodePerCID ==
    (IngestsOf(CID_1) # {} /\ \A p \in Procs : pc[p] = "idle") =>
        LET first == feedLog[CHOOSE k \in IngestsOf(CID_1) : \A m \in IngestsOf(CID_1) : k <= m].x
            id == ShortPostID(CID_1)
            e == GetNodeEnvelope(refs, objs, id)
        IN  /\ e.err = ""
            /\ e.node.id = id
            /\ e.node.type = T_POST
            /\ e.node.content = first.content
            /\ e.node.meta["author"] = [str |-> first.author]
            /\ e.node.meta["ipfs_cid"] = [str |-> CID_1]
            /\ Count(ListNodes(refs, objs, 0), id) = 1
            /\ Cardinality({k \in 1..Len(bindLog) : bindLog[k].id = id}) = 1

\* A step that calls IngestPost with a CID whose node ID is bound changes
\* nothing in the repository.
IngestOfBoundPostID ==
    (/\ Len(feedLog') = Len(feedLog) + 1
     /\ feedLog'[Len(feedLog')].ev = "ingest"
     /\ RefHas(refs, ShortPostID(feedLog'[Len(feedLog')].x.cid))) => UNCHANGED repoVars

\* C24: IngestPost(post, cid) is idempotent: it binds the node ID "post:" + the
\* first 16 characters of cid to a Post node holding the post's content,
\* author and full CID when that ID is unbound, and is a no-op when the ID
\* already exists, so ingesting the same CID any number of times leaves
\* exactly one Post node for it.
C24_IngestPostIdempotent == [](OnePostNodePerCID) /\ [][IngestOfBoundPostID]_vars

\* C24's case: IngestPost was called twice with one CID, longer than 16
\* characters, and both calls have returned.
C24_Witness ==
    /\ Cardinality(IngestsOf(CID_1)) = 2
    /\ Len(CID_1) > 16
    /\ \A p \in Procs : pc[p] = "idle"
    /\ fpc["user"] = "idle"

\* The CIDs PublishPost has returned, oldest first.
Published ==
    LET ks == {k \in 1..Len(feedLog) : feedLog[k].ev = "publish"}
        nth[n \in 0..Len(feedLog)] ==
            IF n = 0 THEN <<>>
            ELSE IF n \in ks THEN Append(nth[n - 1], feedLog[n].x) ELSE nth[n - 1]
    IN  nth[Len(feedLog)]

\* The CIDs of the persisted feed index, in its order.
FeedIndexCIDs ==
    LET posts == loadFeedIndex(pub.feedFile).feed.posts
    IN  [i \in 1..Len(posts) |-> posts[i].cid]

\* C25: after any sequence of successful PublishPost calls, the persisted
\* local feed index holds at most 100 entries (maxFeedEntries) ordered newest
\* first: its first entry is the CID of the most recently published post, and
\* when the cap is exceeded the oldest entries are the ones dropped.
C25_FeedIndexNewestFirst ==
    LET n == Len(Published)
        m == IF n > maxFeedEntries THEN maxFeedEntries ELSE n
    IN  /\ Len(FeedIndexCIDs) <= maxFeedEntries
        /\ FeedIndexCIDs = [i \in 1..m |-> Published[n + 1 - i]]
        /\ \A i \in 1..(Len(FeedIndexCIDs) - 1) :
               loadFeedIndex(pub.feedFile).feed.posts[i].timestamp.rfc3339
                   > loadFeedIndex(pub.feedFile).feed.posts[i + 1].timestamp.rfc3339

\* C25's case: more posts than maxFeedEntries were published, with a failed
\* PublishPost among the calls, and the index has dropped the oldest.
C25_Witness ==
    /\ Len(Published) > maxFeedEntries
    /\ \E k \in 1..Len(feedLog) : feedLog[k].ev = "add_failed"
    /\ fpc["user"] = "idle"
    /\ \A i \in 1..Len(FeedIndexCIDs) : FeedIndexCIDs[i] # Published[1]

\* What a reader of path finds in a directory: no file, or the content.
ReadAt(dir, path) == IF path \in DOMAIN dir THEN [exists |-> TRUE, data |-> dir[path]]
                     ELSE [exists |-> FALSE, data |-> <<>>]

\* The temporary files of a directory.
TempFiles(dir) == {f \in DOMAIN dir : f # TargetPath}

\* While SafeWrite runs a reader of path finds what was there before the call.
ReaderSeesOldDuring ==
    unit.pc # "idle" => ReadAt(unit.dir, unit.path) = ReadAt(unit.before, unit.path)

\* After a SafeWrite that succeeded a reader finds the whole data, and the
\* directory has no other new file.
ReaderSeesNewAfter ==
    (unit.pc = "idle" /\ unit.res = "ok") =>
        /\ ReadAt(unit.dir, unit.path) = [exists |-> TRUE, data |-> unit.data]
        /\ TempFiles(unit.dir) = {}

\* After a SafeWrite that failed the directory is what it was before the call.
FailureLeavesNoTrace ==
    (unit.pc = "idle" /\ unit.res = "error") =>
        /\ ReadAt(unit.dir, unit.path) = ReadAt(unit.before, unit.path)
        /\ TempFiles(unit.dir) = {}

\* C26: at every point during and after SafeWrite(path, data), including when
\* any step (create temp, write, fsync, chmod, close, rename) fails, a reader
\* of path sees either the complete previous content (or no file) or the
\* complete new data, never partial content; after a failed SafeWrite the
\* target is unchanged and no temp file remains in the directory.
C26_SafeWriteIsAtomic == ReaderSeesOldDuring /\ ReaderSeesNewAfter /\ FailureLeavesNoTrace

\* C26's case: a SafeWrite over an existing file has failed after a part of
\* its data was written to the temporary file.
C26_Witness ==
    /\ unit.pc = "idle" /\ unit.res = "error" /\ unit.partial
    /\ unit.path \in DOMAIN unit.before

\* The first place of a text in a text, 0 when it is not there.
Find(text, part) ==
    LET at == {i \in 1..(Len(text) - Len(part) + 1) : SubSeq(text, i, i + Len(part) - 1) = part}
    IN  IF at = {} THEN 0 ELSE CHOOSE i \in at : \A j \in at : i <= j

\* The keys of a map, and of the maps among its values.
KeysOf(v) == {v.items[i][1] : i \in 1..Len(v.items)}
InnerKeysOf(v) ==
    UNION {KeysOf(v.items[i][2]) : i \in {j \in 1..Len(v.items) : v.items[j][2].k = "map"}}

\* In a serialization the keys of one level stand in lexicographic order.
KeysInOrder(out, keys) ==
    \A k1, k2 \in keys :
        StrLess(k1, k2) =>
            /\ Find(out, Quote(k1) \o <<":">>) > 0
            /\ Find(out, Quote(k1) \o <<":">>) < Find(out, Quote(k2) \o <<":">>)

\* C28: CanonicalJSON output depends only on the value: two maps holding the
\* same key/value pairs built in different insertion orders serialize to
\* identical bytes, repeated calls give identical bytes, and object keys
\* appear in lexicographic order at every nesting level with no inserted
\* whitespace.
C28_CanonicalJSONDeterministic ==
    (unit.op = "CanonicalJSON" /\ unit.done) =>
        /\ unit.outA = unit.again
        /\ unit.outA = unit.outB
        /\ KeysInOrder(unit.outA, KeysOf(unit.a))
        /\ KeysInOrder(unit.outA, InnerKeysOf(unit.a))
        /\ \A i \in 1..Len(unit.outA) : unit.outA[i] \notin {" ", "\n", "\t", "\r"}

\* C28's case: two maps with the same pairs, inserted in another order in the
\* outer map and in the inner one, have been serialized.
C28_Witness ==
    /\ unit.op = "CanonicalJSON" /\ unit.done
    /\ unit.a.items[1][1] # unit.b.items[1][1]
    /\ \E i, j \in 1..2 :
        /\ unit.a.items[i][2].k = "map" /\ unit.b.items[j][2].k = "map"
        /\ unit.a.items[i][2] # unit.b.items[j][2]

\* DecodeDIDKey has given back the key that encodeDIDKey encoded.
DecodeInvertsEncode ==
    (unit.op = "DecodeDIDKey" /\ unit.done /\ unit.key # <<>>) =>
        ~unit.err /\ unit.out = unit.key

\* DecodeDIDKey has returned an error or 32 bytes.
ErrorOr32Bytes ==
    (unit.op = "DecodeDIDKey" /\ unit.done) => (unit.err \/ Len(unit.out) = 32)

\* C29: DecodeDIDKey is the inverse of encodeDIDKey on 32-byte keys
\* (DecodeDIDKey(encodeDIDKey(k)) = k), and on any input it returns either an
\* error or exactly 32 key bytes: a missing did:key:z prefix, a character
\* outside the base58btc alphabet, or decoded bytes that are not the prefix
\* (0xED, 0x01) followed by exactly 32 bytes are errors.
C29_DecodeDIDKeyContract == DecodeInvertsEncode /\ ErrorOr32Bytes

\* C29's case: a string whose digits decode to more than 34 bytes beginning
\* 0xED 0x01 has been decoded.
C29_Witness ==
    /\ unit.op = "DecodeDIDKey" /\ unit.done
    /\ unit.did = DidKeyPrefix \o Base58btc(ed25519Multicodec \o KeyOf(1, 58) \o <<0>>)

\* The part of C29 that holds: the round trip on 32-byte keys.
C29_RoundTrip == DecodeInvertsEncode

\* A key beginning with a zero byte has made the round trip.
C29_RoundTripWitness ==
    /\ unit.op = "DecodeDIDKey" /\ unit.done /\ ~unit.err
    /\ unit.key = KeyOf(0, 255)

\* VerifyPost of what SignPost returned is (true, nil).
SignedPostVerifies ==
    (unit.op = "VerifyPost" /\ unit.done /\ unit.changed = "") =>
        unit.ok /\ ~unit.err /\ ~unit.panic

\* VerifyPost of a signed post with a changed field returns false.
ChangedPostFails ==
    (unit.op = "VerifyPost" /\ unit.done /\ unit.changed \notin {"", "signature"}) =>
        ~unit.ok /\ ~unit.panic

\* VerifyPost of a post with an empty signature is (false, nil).
EmptySignatureFails ==
    (unit.op = "VerifyPost" /\ unit.done /\ unit.post.signature.empty) =>
        ~unit.ok /\ ~unit.err /\ ~unit.panic

\* C27: for any post and any key pair whose DID is the post's author,
\* VerifyPost(SignPost(post, key)) returns true; changing any of v, type,
\* content, author, refs, tags or timestamp after signing makes VerifyPost
\* return false; and a post with an empty signature yields (false, no error).
C27_SignVerifyContract == SignedPostVerifies /\ ChangedPostFails /\ EmptySignatureFails

\* C27's case: a signed post whose v was changed has been verified.
C27_Witness ==
    /\ unit.op = "VerifyPost" /\ unit.done /\ unit.changed = "v"
    /\ ~unit.post.signature.empty

\* The parts of C27 that hold: the round trip, the empty signature, and a
\* change of a field other than v and author.
C27_RoundTripAndOtherFields ==
    /\ SignedPostVerifies
    /\ EmptySignatureFails
    /\ unit.changed \notin {"v", "author"} => ChangedPostFails

\* The part about v alone, which fails: a signed post whose v was changed
\* does not verify.
C27_ChangedVersionFails == unit.changed = "v" => ChangedPostFails

\* A signed post whose refs were changed has been verified.
C27_OtherFieldsWitness ==
    /\ unit.op = "VerifyPost" /\ unit.done /\ unit.changed = "refs"

\* The log of all the events recorded has been replayed.
Replayed == unit.op = "NewCoAccessIndex" /\ unit.events = Len(accessed)

\* C30: for any time-ordered sequence of access events, the pair counts
\* obtained by replaying those events from the access log on open equal the
\* pair counts obtained by feeding the same events one by one through Record:
\* both apply the same sessionization.
C30_ReplayEqualsRecord == Replayed => unit.idx.pairs = coAccess.pairs

\* C30's case: events of two sessions, the second of two nodes, have been
\* recorded and replayed.
C30_Witness ==
    /\ Replayed
    /\ coAccess.pairs # EmptyFn
    /\ Cardinality(coAccess.currentWindow) >= 2

\* The part of C30 that holds: the replayed counts are those of Record once
\* its open session is flushed too.
C30_EqualOnceFlushed ==
    Replayed =>
        unit.idx.pairs = flushSession(coAccess.pairs, SortStrings(coAccess.currentWindow))

\* A log with a malformed line in it has been replayed.
C30_FlushedWitness ==
    /\ Replayed /\ unit.torn > 0
    /\ coAccess.pairs # EmptyFn

\* The change events of the chain, oldest first (their times differ).
EventsOldestFirst == CHOOSE sorted \in SortedByTime(ChangeEvents(unit.chain)) : TRUE

\* Event r begins a maximal run of adjacent gaps of at most the window, and
\* event i belongs to the run that r begins.
BeginsRun(events, r) == r = 1 \/ events[r].ts - events[r - 1].ts > coChangeWindow
InRunOf(events, r, i) ==
    /\ r <= i
    /\ \A j \in (r + 1)..i : events[j].ts - events[j - 1].ts <= coChangeWindow

\* The IDs changed in the run that event r begins.
ChangedInRun(events, r) ==
    UNION {events[i].changed : i \in {j \in 1..Len(events) : InRunOf(events, r, j)}}

\* The count of a pair after one Build: the runs in which both changed.
RunCount(events, a, b) ==
    Cardinality({r \in 1..Len(events) :
                    BeginsRun(events, r) /\ a \in ChangedInRun(events, r) /\ b \in ChangedInRun(events, r)})

\* A chain of two commits or more has been built into a fresh index.
BuiltOnce ==
    unit.op = "Build" /\ unit.builds = 1 /\ unit.built = Len(unit.chain) /\ Len(unit.chain) >= 2

\* C31: CoChangeIndex.Build groups the change events, sorted oldest first,
\* into maximal runs in which every adjacent gap is at most the change
\* window, and for each run increments by exactly one the count of every
\* unordered pair of distinct IDs in the union of the run's changed IDs.
C31_BuildGroupsMaximalRuns ==
    BuiltOnce =>
        \A a, b \in IDs :
            a # b => PairCount(coChange.pairs, a, b) = RunCount(EventsOldestFirst, a, b)

\* C31's case: three change events, each at most the window after the one
\* before it and the last more than the window after the first, were built.
C31_Witness ==
    /\ BuiltOnce
    /\ Len(EventsOldestFirst) = 3
    /\ \A i \in 2..3 : EventsOldestFirst[i].ts - EventsOldestFirst[i - 1].ts <= coChangeWindow
    /\ EventsOldestFirst[3].ts - EventsOldestFirst[1].ts > coChangeWindow

\* The windows Build makes: an event is put in the open window unless it is
\* more than the window after the first event of that window.
WindowCount(events, a, b) ==
    LET windows == BuildWindows(events)
        ids(w) == UNION {windows[w][i].changed : i \in 1..Len(windows[w])}
    IN  Cardinality({w \in 1..Len(windows) : a \in ids(w) /\ b \in ids(w)})

\* What holds of C31: every pair of distinct IDs is counted once for each
\* window of Build in which both changed, the windows measured from their
\* first event.
C31_CountsOncePerWindow ==
    BuiltOnce =>
        \A a, b \in IDs :
            a # b => PairCount(coChange.pairs, a, b) = WindowCount(EventsOldestFirst, a, b)

\* Two windows, the second of two IDs, have been built.
C31_WindowWitness ==
    /\ BuiltOnce
    /\ Len(BuildWindows(EventsOldestFirst)) = 2
    /\ coChange.pairs # EmptyFn

\* The index was built from the chain as it is, once or a second time with
\* no commit between.
BuiltFromChain ==
    /\ unit.op = "Build" /\ unit.built = Len(unit.chain)
    /\ unit.builds = 1 \/ unit.rebuilt

\* C33: rebuilding the co-change index is deterministic given the same commit
\* chain: every Build over an unchanged commit chain leaves the index with
\* the same pair counts, whether it runs on a fresh index or is invoked again
\* on an index that was already built.
C33_RebuildIsDeterministic ==
    BuiltFromChain => coChange.pairs \in BuildAfresh(coChange.pairs, unit.chain)

\* C33's case: Build was invoked again on an index with pairs, the chain
\* unchanged.
C33_Witness ==
    /\ unit.op = "Build" /\ unit.rebuilt /\ unit.built = Len(unit.chain)
    /\ coChange.pairs # EmptyFn

\* What holds of C33: Build on a fresh index leaves the counts of the chain,
\* the same for every order the sort can give.
C33_FreshBuildsAgree ==
    (unit.op = "Build" /\ unit.builds = 1 /\ unit.built = Len(unit.chain)) =>
        /\ coChange.pairs \in BuildAfresh(coChange.pairs, unit.chain)
        /\ Cardinality(BuildAfresh(EmptyFn, unit.chain)) = 1

\* A pair matrix is symmetric and has no entry pairs[a][a].
Symmetric(pairs) ==
    \A k \in DOMAIN pairs : <<k[2], k[1]>> \in DOMAIN pairs /\ pairs[k[2], k[1]] = pairs[k]
NoSelfPair(pairs) == \A k \in DOMAIN pairs : k[1] # k[2]

\* The pair matrices there are: of the co-access index fed through Record, of
\* the one replayed from the log, and of the co-change index.
PairMatrices ==
    {coAccess.pairs, coChange.pairs}
    \cup (IF unit.op = "NewCoAccessIndex" THEN {unit.idx.pairs} ELSE {})

\* All the access events so far are of one ID.
SingleIDAccessed == Cardinality({accessed[i].node : i \in 1..Len(accessed)}) <= 1

\* C32: in both the co-access and the co-change index, after any sequence of
\* replay, Record and Build operations, the pair matrix is symmetric
\* (count[a][b] = count[b][a] for all a, b) and has no self pair (no entry
\* count[a][a]); repeated accesses of a single ID increment nothing.
C32_PairMatrixSymmetricNoSelf ==
    /\ \A pairs \in PairMatrices : Symmetric(pairs) /\ NoSelfPair(pairs)
    /\ SingleIDAccessed => \A pairs \in PairMatrices \ {coChange.pairs} : pairs = EmptyFn

\* C32's case: an ID was accessed twice in a session of two IDs that has been
\* replayed, with pairs counted.
C32_Witness ==
    /\ unit.op = "NewCoAccessIndex" /\ unit.idx.pairs # EmptyFn
    /\ \E i, j \in 1..Len(accessed) :
        i < j /\ accessed[i].node = accessed[j].node /\ accessed[j].ts - accessed[i].ts <= 1

\* The live side of C32's case: Record has closed a session of two IDs.
C32_RecordWitness == unit.op # "Build" /\ coAccess.pairs # EmptyFn

\* The co-change side of C32's case: a window of two IDs was built twice.
C32_BuildWitness == unit.op = "Build" /\ unit.builds = 2 /\ coChange.pairs # EmptyFn

\* CheckFeeds saves the follow list and returns.
CheckFeedsReturns == fpc["user"] = "cf_save" /\ fpc'["user"] = "idle"

\* C34: after CheckFeeds, the last-seen list of a follow whose feed resolved,
\* fetched and parsed with at least one entry equals the full list of CIDs in
\* that feed, including posts that failed to fetch or verify; the last-seen
\* list of a follow whose resolve, fetch or parse failed is unchanged, the
\* failure yields one summary line, and the remaining follows are still
\* processed.
C34_LastSeenIsWholeFeed ==
    [][CheckFeedsReturns =>
        LET before == loadFollowing(following)
            after == loadFollowing(following')
            lines == floc["user"].lines
        IN  /\ Len(after) = Len(before)
            /\ Len(lines) = Len(before)
            /\ \A i \in 1..Len(before) :
                LET feed == unit.feeds[before[i].did]
                IN  /\ after[i].did = before[i].did
                    /\ (~feed.failed /\ feed.posts # <<>>) =>
                        /\ after[i].lastSeenCids = [k \in 1..Len(feed.posts) |-> feed.posts[k].cid]
                        /\ lines[i] \in {"new", "up_to_date"}
                    /\ feed.failed =>
                        /\ after[i].lastSeenCids = before[i].lastSeenCids
                        /\ lines[i] = "failed"]_vars

\* C34's case: CheckFeeds has returned after the feed of the first follow
\* failed and the feed of the second gave two posts of which not both were
\* ingested.
C34_Witness ==
    /\ unit.op = "CheckFeeds" /\ fpc["user"] = "idle" /\ floc["user"].op = "CheckFeeds"
    /\ floc["user"].res = "ok"
    /\ Len(floc["user"].lines) = 2
    /\ floc["user"].lines[1] = "failed"
    /\ Len(loadFollowing(following)) = 2
    /\ loadFollowing(following)[2].lastSeenCids = <<CID_2, CID_1>>
    /\ ~(RefHas(refs, PostNodeID(CID_1)) /\ RefHas(refs, PostNodeID(CID_2)))


\* ------------------------------------------------------------------- C35

\* What a returned mutation l leaves in refs, links and the search index.
InEffect(l) ==
    CASE l.op = "CreateLink" -> l.link \in AllEntries(links)
      [] l.op = "DeleteNode" /\ l.force ->
            /\ ~RefHas(refs, l.id)
            /\ \A t \in DOMAIN search.index : l.id \notin search.index[t]
      [] l.op = "DeleteNode" /\ ~l.force ->
            /\ RefGet(refs, l.id).cid = l.cid
            /\ GetNodeEnvelope(refs, objs, l.id).node.deleted
            /\ \A t \in DOMAIN search.index : l.id \notin search.index[t]
      [] OTHER ->
            /\ RefGet(refs, l.id).cid = l.cid
            /\ GetNodeEnvelope(refs, objs, l.id).node = l.node
            /\ \A t \in NodeTerms(l.id, l.node) :
                  t \in DOMAIN search.index /\ l.id \in search.index[t]

\* The step in which handler 1 leaves Commit without having written HEAD.
CommitFailed == pc[1] = "commit_write" /\ pc'[1] = "idle" /\ commitLog' = commitLog

\* C35: when the commit of a mutation fails, because the commit object cannot
\* be stored or because HEAD cannot be written, the mutation returns success,
\* refs, links and the search index keep what the mutation made of them, and
\* HEAD keeps the value it had.
C35_CommitFailureIsWarnOnly ==
    [][CommitFailed =>
          /\ loc'[1].res = "ok"
          /\ nSucc' = nSucc + 1
          /\ <<refs', links', search'>> = <<refs, links, search>>
          /\ InEffect(loc[1]) /\ InEffect(loc'[1])
          /\ headFile' = headFile
          /\ Log(objs', headFile', MaxOps) = Log(objs, headFile, MaxOps)]_vars

\* A mutation has returned after its commit failed, and HEAD names an earlier
\* commit.
C35_Witness ==
    /\ unit.op = "commit" /\ unit.failed
    /\ pc[1] = "idle"
    /\ loc[1].op \in Mutations /\ loc[1].res = "ok"
    /\ headFile.exists
    /\ Len(commitLog) < nSucc

\* After a failed commit the next mutation's commit has the earlier HEAD as
\* its parent: the failed commit is not in the log.
C35_LogSkipsFailedCommit ==
    Len(Log(objs, headFile, MaxOps + 1)) = Len(commitLog)

C35_RecoveredWitness ==
    /\ unit.op = "commit" /\ unit.faults > 0 /\ ~unit.failed
    /\ pc[1] = "idle" /\ loc[1].op \in Mutations /\ loc[1].res = "ok"
    /\ Len(commitLog) >= 2


\* ------------------------------------------------------------------- C36

\* Ingest has returned without error.
IngestReturned == pc[1] = "idle" /\ loc[1].op = "Ingest" /\ loc[1].res = "ok"

\* GetNode on the ID of the returned Ingest succeeds and gives its content.
GetNodeGivesContent ==
    LET e == GetNode(refs, objs, loc[1].id)
    IN  e.err = "" /\ e.node.content = loc[1].content

\* C36: whenever Ingest(content, format) returns without error, GetNode on the
\* returned ID succeeds and returns that content, whatever operations came
\* before, a soft delete of the same ID included.
C36_IngestThenGetNode == IngestReturned => GetNodeGivesContent

\* An Ingest has returned and GetNode gives its content: the first Ingest of
\* the content, and a later one that found the ID bound to a live node.
C36_Witness ==
    /\ IngestReturned /\ ~loc[1].created
    /\ GetNodeGivesContent
    /\ nSucc = 2

\* The ref of the returned Ingest's ID names a tombstone.
IngestOfTombstone ==
    /\ IngestReturned
    /\ GetNodeEnvelope(refs, objs, loc[1].id).err = ""
    /\ GetNodeEnvelope(refs, objs, loc[1].id).node.deleted

\* Every returned Ingest but the one of a soft-deleted ID is followed by a
\* GetNode that gives the content; the one of a soft-deleted ID returns
\* created = false and GetNode fails.
C36_HoldsUnlessTombstone ==
    /\ (IngestReturned /\ ~IngestOfTombstone) => GetNodeGivesContent
    /\ IngestOfTombstone =>
          ~loc[1].created /\ GetNode(refs, objs, loc[1].id).err = "deleted"

C36_TombstoneWitness == IngestOfTombstone


\* ------------------------------------------------------------------- C37

\* The textual CIDs met when following prev from `text`, at most n of them.
RECURSIVE PrevChain(_, _, _)
PrevChain(store, text, n) ==
    IF n = 0 \/ ~DecodeCID(text).ok \/ ~ObjectStoreHas(store, DecodeCID(text).cid) THEN {}
    ELSE {text} \cup PrevChain(store, EnvelopeAt(store, text).prev, n - 1)

\* The textual CIDs of the envelopes ever bound to id.
EverBound(id) ==
    {bindLog[k].text : k \in {j \in 1..Len(bindLog) : bindLog[j].id = id /\ bindLog[j].bound}}

\* No ref was removed: the mutations so far are creates, updates and soft
\* deletes (and calls that bind nothing).
NoHardDelete == \A k \in 1..Len(bindLog) : bindLog[k].bound

\* From the current envelope of every bound ID, prev reaches every envelope
\* ever bound to the ID.
HistoryReachable ==
    \A id \in IDs :
        RefHas(refs, id) =>
            EverBound(id) \subseteq PrevChain(objs, refs[refFilename(id)], MaxOps + 1)

\* C37: for every ID, following prev from the ID's current envelope reaches
\* every envelope that was ever bound to the ID, after any sequential mix of
\* CreateNode, UpdateNode, UpdateContent and soft DeleteNode, a CreateNode on
\* a bound or tombstoned ID included.
C37_PrevReachesEveryVersion == (pc[1] = "idle" /\ NoHardDelete) => HistoryReachable

\* An ID was created, updated and soft-deleted, and its three envelopes are on
\* the chain of the tombstone.
C37_Witness ==
    /\ pc[1] = "idle" /\ NoHardDelete
    /\ loc[1].op = "DeleteNode" /\ loc[1].res = "ok"
    /\ Cardinality(EverBound(loc[1].id)) = 3
    /\ HistoryReachable

\* A CreateNode has bound a ref file that was already written.
Recreated ==
    \E k \in 1..Len(bindLog) :
        /\ bindLog[k].op = "CreateNode"
        /\ \E j \in 1..(k - 1) : bindLog[j].file = bindLog[k].file

\* Without a CreateNode on a ref file that is already bound, the history is
\* reachable.
C37_HoldsWithoutRecreate ==
    (pc[1] = "idle" /\ NoHardDelete /\ ~Recreated) => HistoryReachable

\* CreateNode on a bound ID has returned: the envelope it replaced is not on
\* the chain of the new one.
C37_RecreateWitness ==
    /\ pc[1] = "idle" /\ NoHardDelete /\ Recreated
    /\ loc[1].op = "CreateNode" /\ loc[1].boundBefore
    /\ loc[1].refBefore \notin PrevChain(objs, refs[refFilename(loc[1].id)], MaxOps + 1)


\* ------------------------------------------------------------------- C38

\* The types a node can have: those CreateNode is given and Ingest's.
Types == {a.typ : a \in CreateArgs} \cup {T_SOURCE}

\* The elements of a sequence.
Range(seq) == {seq[i] : i \in 1..Len(seq)}

\* Every ID FilterByType(T) returns has a current, non-deleted envelope of
\* type T, and so has every node FilterNodes(T) returns.
ListedUnderOwnType ==
    \A T \in Types :
        /\ \A id \in Range(FilterByType(search, T, 0)) :
              LET e == GetNode(refs, objs, id)
              IN  e.err = "" /\ e.node.type = T
        /\ \A node \in Range(FilterNodes(search, refs, objs, T, 0)) :
              node.type = T /\ ~node.deleted

\* No ID is listed under two types.
AtMostOneType ==
    \A T1 \in Types, T2 \in Types :
        T1 # T2 =>
            Range(FilterByType(search, T1, 0)) \cap Range(FilterByType(search, T2, 0)) = {}

\* C38: after any sequence of mutations, every ID that FilterByType(T) or
\* FilterNodes(T) returns has a current, non-deleted envelope whose type is T,
\* so an ID is listed under at most one type, also after CreateNode is called
\* again on a bound ID with a different type.
C38_ListedUnderCurrentType == pc[1] = "idle" => (ListedUnderOwnType /\ AtMostOneType)

\* Nodes of two types are listed, each under its own type.
C38_Witness ==
    /\ pc[1] = "idle"
    /\ ListedUnderOwnType /\ AtMostOneType
    /\ Cardinality({T \in Types : FilterNodes(search, refs, objs, T, 0) # <<>>}) = 2

\* Every ref file was written under one ID only, and by at most one
\* CreateNode or Ingest, its first write.
BoundOnce ==
    \A k \in 1..Len(bindLog) :
        \A j \in 1..(k - 1) :
            bindLog[j].file = bindLog[k].file =>
                /\ bindLog[j].id = bindLog[k].id
                /\ bindLog[k].op \notin {"CreateNode", "Ingest"} \/ ~bindLog[j].bound

\* While no ref file is created twice or shared by two IDs, the listings
\* follow the current type.
C38_HoldsWhenBoundOnce ==
    (pc[1] = "idle" /\ BoundOnce) => (ListedUnderOwnType /\ AtMostOneType)

\* CreateNode on a bound ID with another type has returned: the ID is listed
\* under both types.
C38_RetypedWitness ==
    /\ pc[1] = "idle"
    /\ loc[1].op = "CreateNode" /\ loc[1].boundBefore
    /\ EnvelopeAt(objs, loc[1].refBefore).id = loc[1].id
    /\ ~AtMostOneType


\* ------------------------------------------------------------------- C39

\* The last Set or Delete left what Get returns for every other ID as it was.
OthersUntouched ==
    \A other \in RefIDs \ {unit.id} : RefGet(refs, other) = unit.before[other]

\* List returns the IDs that were Set and not since Deleted.
ListIsBound == RefList(refs) = DOMAIN unit.bound

\* C39: distinct IDs are bound independently in the ref store: Set or Delete
\* of one ID never changes what Get returns for a different ID, and List
\* returns exactly the IDs that were Set and not since Deleted, for all IDs,
\* those containing ':' or '__' included.
C39_RefsIndependent == unit.op \in {"Set", "Delete"} => (OthersUntouched /\ ListIsBound)

\* Two IDs were Set and one of them was Deleted: the other is still bound to
\* its CID and is the one ID listed.
C39_Witness ==
    /\ unit.op = "Delete" /\ ~unit.err
    /\ Cardinality(unit.used) = 2
    /\ Cardinality(DOMAIN unit.bound) = 1
    /\ OthersUntouched /\ ListIsBound

\* The IDs that are read back from their file name: those without "__".
PlainIDs == {id \in RefIDs : refIDFromFilename(refFilename(id)) = id}

\* Among the IDs without "__", ':' included, the ref store binds each ID
\* independently: a call on one leaves Get of the others as it was, List is
\* the set of bound IDs and Get returns the CID of the last Set.
C39_HoldsForPlainIDs ==
    (unit.op \in {"Set", "Delete"} /\ unit.used \subseteq PlainIDs) =>
        /\ \A other \in PlainIDs \ {unit.id} : RefGet(refs, other) = unit.before[other]
        /\ ListIsBound
        /\ \A id \in PlainIDs :
              IF id \in DOMAIN unit.bound
              THEN RefGet(refs, id) = [err |-> "", cid |-> unit.bound[id]]
              ELSE RefGet(refs, id).err = "not_found"

\* An ID with ':' and one without are bound, and a third was deleted.
C39_PlainWitness ==
    /\ unit.op = "Delete" /\ ~unit.err
    /\ unit.used \subseteq PlainIDs
    /\ DOMAIN unit.bound = {ID_N, ID_C}

\* Set("t__x") has changed what Get("t:x") returns.
C39_CollisionWitness ==
    /\ unit.op = "Set" /\ unit.id = ID_U
    /\ unit.before[ID_C].err = ""
    /\ RefGet(refs, ID_C) # unit.before[ID_C]


\* ------------------------------------------------------------------- C40

\* The goroutines that published the name: all of them, when none failed.
AllPublished == \A k \in 1..Len(unit.jobs) : unit.jobs[k].at = "done"

\* The posts of the feed index the IPNS name points at.
NamedPosts ==
    IF unit.name.set
    THEN LET feed == UnmarshalFeedIndex(unit.name.data)
         IN  [i \in 1..Len(feed.posts) |-> feed.posts[i].cid]
    ELSE <<>>

\* C40: when PublishPost calls p1 and then p2 have both returned successfully
\* and all their background publishes have completed without error, the IPNS
\* name points at the feed index that contains p2, the latest persisted feed
\* index, and never at the older index that lacks p2.
C40_NamePointsAtLatestIndex ==
    (fpc["user"] = "idle" /\ Len(unit.jobs) >= 2 /\ AllPublished) =>
        /\ unit.name = KuboAdd(pub.feedFile.data)
        /\ \E i \in 1..Len(NamedPosts) : NamedPosts[i] = unit.jobs[Len(unit.jobs)].post

\* Two posts were published, both goroutines have published the name, and
\* the name points at the index that holds the second post first.
C40_Witness ==
    /\ fpc["user"] = "idle" /\ Len(unit.jobs) = 2 /\ AllPublished
    /\ unit.name = KuboAdd(pub.feedFile.data)
    /\ NamedPosts = <<unit.jobs[2].post, unit.jobs[1].post>>

\* The name points at an index one of the goroutines was given, and once the
\* goroutines are done without error every index has been published: the
\* name can only be behind, not wrong.
C40_NameIsSomePublishedIndex ==
    /\ unit.name.set => \E k \in 1..Len(unit.jobs) : unit.name.data = unit.jobs[k].data
    /\ (Len(unit.jobs) = 1 /\ AllPublished) => unit.name = KuboAdd(pub.feedFile.data)

\* Both goroutines are done without error and the name points at the index
\* that lacks the second post.
C40_StaleWitness ==
    /\ fpc["user"] = "idle" /\ Len(unit.jobs) = 2 /\ AllPublished
    /\ NamedPosts = <<unit.jobs[1].post>>

=============================================================================
